---- MODULE Spec2Model ----
(***************************************************************************)
(* gamefriend: the guide embeddings store (EmbeddingsManager) and the      *)
(* retrieval coordinator (FileSystemGuideManager.get_guide_context).       *)
(*                                                                         *)
(* Strings that the code only joins and measures are TLA+ strings; names   *)
(* that the code lower-cases, rewrites and matches by substring are        *)
(* sequences of one-character strings.  A numpy array is a record          *)
(* [ndim, rows, dtype]; a persisted JSON record holds nested lists.        *)
(***************************************************************************)
EXTENDS Integers, Sequences, FiniteSets, TLC

\* ------------------------------------------------------------------ bounds
\* EmbeddingsManager(chunk_size, chunk_overlap, batch_size), scaled down.
chunk_size == 4
chunk_overlap == 1
batch_size == 2
\* Largest top_k a caller passes to search / get_guide_context.
MaxTopK == 3
\* Largest index of the model.encode call of one process_game_guides run that
\* may raise (0: none raises).
MaxFailAt == 3

\* Largest chunk_size and chunk_overlap a manager running _chunk_text on its
\* own is built with, and the most "\n\n"-separated parts its text has.
MaxChunkSize == 4
MaxChunkOverlap == 3
MaxParagraphs == 4

\* Most pages a guide reports, and the largest token budget a caller of
\* get_context_for_query passes.
MaxPages == 3
MaxTokens == 5
\* Most children of a content div.
MaxChildren == 3
\* Most process_message calls made on one ChatManager.
MaxCalls == 4
\* Most inputs one interactive chat session reads.
MaxInputs == 3
\* Most POST /chat requests the chat API serves.
MaxRequests == 3
\* Most tokens of a text GuideRetriever._chunk_text splits, the largest
\* chunk_size a GuideRetriever is built with, and the most loop passes a
\* run that cannot end is followed for beyond one pass per token.
MaxTokenCount == 4
MaxRetrieverChunkSize == 3
MaxExtraPasses == 2

\* --------------------------------------------------------- program constants
\* model.get_sentence_embedding_dimension(), fixed for the process lifetime.
embedding_dim == 2
\* The distance faiss reports for a missing neighbour (label -1): FLT_MAX.
FLT_MAX == 1000
\* _get_page: "Ensure at least 2 seconds between requests".
MinDelay == 2
\* The number of api_endpoints _get_page tries.
ApiEndpoints == 3
\* get_relevant_chunks(query, n_results = 3)
n_results == 3
\* process_message: "Last 5 messages for context".
HistoryWindow == 5

Min(a, b) == IF a < b THEN a ELSE b
Max(a, b) == IF a > b THEN a ELSE b

\* ------------------------------------------------------------ name handling
\* str.lower() on the characters the model uses.
Lower(c) ==
  IF c \notin {"S", "B", "P", "Q", "U", "I", "T", "E", "X"}
    THEN c
    ELSE CASE c = "S" -> "s"
           [] c = "B" -> "b"
           [] c = "P" -> "p"
           [] c = "Q" -> "q"
           [] c = "U" -> "u"
           [] c = "I" -> "i"
           [] c = "T" -> "t"
           [] c = "E" -> "e"
           [] c = "X" -> "x"

LowerStr(s) == [i \in 1..Len(s) |-> Lower(s[i])]

\* str.replace(" ", "-")
ReplaceSpaces(s) == [i \in 1..Len(s) |-> IF s[i] = " " THEN "-" ELSE s[i]]

\* game_name.lower().replace(" ", "-")
Normalize(game_name) == ReplaceSpaces(LowerStr(game_name))

\* Python's `a in b` on strings: a is a contiguous substring of b.
IsSubstring(a, b) ==
  \E k \in 0..(Len(b) - Len(a)) : SubSeq(b, k + 1, k + Len(a)) = a

\* The game names callers pass.
GameNames == { <<"S", " ", "B">>, <<"s", "-", "b">>, <<"s">>, <<"z">> }

\* The platform directory names.
PlatformNames == { <<"p">>, <<"P">> }

\* The queries callers pass.
Queries == { "sword", "map" }

\* ------------------------------------------------------------- numpy arrays
\* np.array([]): shape (0,), float64.
NpEmpty == [ndim |-> 1, rows |-> << >>, dtype |-> "float64"]

\* len(a): the size of the first axis.
NpLen(a) == Len(a.rows)

\* The second axis of a 2-d array (0 rows cannot occur: encode is never called
\* on an empty batch).
NpCols(a) == Len(a.rows[1])

\* np.atleast_2d: a 1-d array of shape (n,) becomes (1, n); here n = 0.
AtLeast2d(a) ==
  IF a.ndim = 1 THEN [ndim |-> 2, rows |-> << a.rows >>, dtype |-> a.dtype]
  ELSE a

PromoteDtype(x, y) == IF x = "float64" \/ y = "float64" THEN "float64" ELSE "float32"

RECURSIVE ConcatRows(_)
ConcatRows(arrays) ==
  IF arrays = << >> THEN << >> ELSE arrays[1].rows \o ConcatRows(Tail(arrays))

RECURSIVE PromoteAll(_)
PromoteAll(arrays) ==
  IF Len(arrays) = 1 THEN arrays[1].dtype
  ELSE PromoteDtype(arrays[1].dtype, PromoteAll(Tail(arrays)))

\* np.vstack(arrays), arrays non-empty: each made 2-d, then concatenated along
\* axis 0, which raises ValueError unless the column counts agree.
VStack(arrays) ==
  LET a2 == [i \in 1..Len(arrays) |-> AtLeast2d(arrays[i])]
  IN IF \E i \in 1..Len(a2) : NpCols(a2[i]) # NpCols(a2[1])
       THEN [ok |-> FALSE, value |-> NpEmpty]
       ELSE [ok |-> TRUE,
             value |-> [ndim |-> 2, rows |-> ConcatRows(a2), dtype |-> PromoteAll(a2)]]

\* ndarray.tolist(): nested Python lists of floats (the dtype is gone).
ToList(a) == a.rows

\* np.array(list) of a list read back from JSON: [] gives shape (0,), a list
\* of rows a 2-d float64 array.
NpArray(list) ==
  IF list = << >> THEN NpEmpty
  ELSE [ndim |-> 2, rows |-> list, dtype |-> "float64"]

\* ndarray.astype(np.float32)
AsFloat32(a) == [a EXCEPT !.dtype = "float32"]

\* np.array_equal: same shape and same values, whatever the dtype.
ArrayEqual(a, b) == a.ndim = b.ndim /\ a.rows = b.rows

\* ---------------------------------------------------------- embedding model
\* SentenceTransformer.encode of one text: a fixed function of the text.
EncodeOne(text) ==
  [i \in 1..embedding_dim |-> ((Len(text) * i) + (i - 1)) % 3]

\* model.encode(batch_texts): one row per text, in input order, float32.
Encode(batch_texts) ==
  [ndim |-> 2,
   rows |-> [i \in 1..Len(batch_texts) |-> EncodeOne(batch_texts[i])],
   dtype |-> "float32"]

\* ------------------------------------------------------------------ chunker
RECURSIVE Join(_, _)
\* sep.join(parts)
Join(parts, sep) ==
  IF parts = << >> THEN ""
  ELSE IF Len(parts) = 1 THEN parts[1]
  ELSE parts[1] \o sep \o Join(Tail(parts), sep)

RECURSIVE SumLen(_)
\* sum(len(p) for p in parts)
SumLen(parts) ==
  IF parts = << >> THEN 0 ELSE Len(parts[1]) + SumLen(Tail(parts))

\* p.strip() on the parts the model uses.
Strip(p) == IF p = " " THEN "" ELSE p

RECURSIVE StripNonEmpty(_)
\* [p.strip() for p in text.split("\n\n") if p.strip()]
StripNonEmpty(parts) ==
  IF parts = << >> THEN << >>
  ELSE IF Strip(parts[1]) = "" THEN StripNonEmpty(Tail(parts))
  ELSE << Strip(parts[1]) >> \o StripNonEmpty(Tail(parts))

\* One chunk dictionary.
MakeChunk(current_chunk, current_start, source) ==
  LET chunk_text == Join(current_chunk, "\n\n")
  IN [text |-> chunk_text,
      source |-> source,
      start_idx |-> current_start,
      end_idx |-> current_start + Len(chunk_text),
      paragraphs |-> [k \in 1..Len(current_chunk) |-> current_start + k - 1]]

\* A chunker that carries nothing over into the next chunk.
OverlapStartNone(current_chunk, overlap) == Len(current_chunk)

\* overlap_start: the position in the closed chunk the next chunk starts at.
OverlapStart(current_chunk, overlap) == Max(0, Len(current_chunk) - overlap)

RECURSIVE ChunkLoop(_, _, _, _, _, _, _, _)
\* The for loop of _chunk_text from paragraph i on, then the final emit, of
\* a manager built with chunk_size = size and chunk_overlap = overlap.
ChunkLoop(size, overlap, paragraphs, i, chunks, current_chunk, current_start, source) ==
  IF i > Len(paragraphs)
    THEN IF current_chunk # << >>
           THEN Append(chunks, MakeChunk(current_chunk, current_start, source))
           ELSE chunks
    ELSE
      LET paragraph == paragraphs[i]
          current_length == SumLen(current_chunk)
      IN IF current_length + Len(paragraph) > size /\ current_chunk # << >>
           THEN
             LET overlap_start == OverlapStart(current_chunk, overlap)
                 kept == SubSeq(current_chunk, overlap_start + 1, Len(current_chunk))
             IN ChunkLoop(size, overlap, paragraphs, i + 1,
                          Append(chunks, MakeChunk(current_chunk, current_start, source)),
                          Append(kept, paragraph),
                          current_start + overlap_start, source)
           ELSE ChunkLoop(size, overlap, paragraphs, i + 1, chunks,
                          Append(current_chunk, paragraph), current_start, source)

\* _chunk_text that does not emit the accumulator left when the loop ends.
ChunkTextNoFinalEmit(size, overlap, parts, source) ==
  LET chunks == ChunkLoop(size, overlap, StripNonEmpty(parts), 1, << >>, << >>, 0, source)
  IN SubSeq(chunks, 1, Len(chunks) - 1)

\* _chunk_text(text, source) of a manager built with chunk_size = size and
\* chunk_overlap = overlap; text is given as its "\n\n"-separated parts.
ChunkTextWith(size, overlap, parts, source) ==
  ChunkLoop(size, overlap, StripNonEmpty(parts), 1, << >>, << >>, 0, source)

\* _chunk_text(text, source) of the manager the guide manager builds.
ChunkText(parts, source) == ChunkTextWith(chunk_size, chunk_overlap, parts, source)

\* ------------------------------------------------------------- guide files
\* One guide_*.md file: its name and its text as "\n\n"-separated parts.
FileA == [name |-> "guide_1.md", parts |-> << "aaa", " ", "bbb", "ccc" >>]
FileB == [name |-> "guide_2.md", parts |-> << "dd" >>]
FileE1 == [name |-> "guide_3.md", parts |-> << " " >>]
FileE2 == [name |-> "guide_4.md", parts |-> << "" >>]
\* A guide the scraper downloads.
FileC == [name |-> "guide_5.md", parts |-> << "ee" >>]

\* str(guides_dir / platform / game / file)
GuidePath(dir, file) == << dir[1], dir[2], file.name >>

\* ------------------------------------------------------ generate_embeddings
RECURSIVE EmbedBatches(_, _, _, _, _)
\* The batch loop from batch number b on; batch failBatch makes encode raise.
\* sent lists the batch_texts of the encode calls made so far.
EmbedBatches(texts, b, all_embeddings, sent, failBatch) ==
  LET i == (b - 1) * batch_size
      batch_texts == SubSeq(texts, i + 1, Min(i + batch_size, Len(texts)))
  IN IF i >= Len(texts)
       THEN [ok |-> TRUE, batches |-> all_embeddings, sent |-> sent, calls |-> b - 1]
     ELSE IF b = failBatch
       THEN [ok |-> FALSE, batches |-> all_embeddings,
             sent |-> Append(sent, batch_texts), calls |-> b]
     ELSE EmbedBatches(texts, b + 1, Append(all_embeddings, Encode(batch_texts)),
                       Append(sent, batch_texts), failBatch)

\* generate_embeddings that returns the embeddings of the last batch only.
GenerateEmbeddingsLastBatch(chunks, failBatch) ==
  LET texts == [i \in 1..Len(chunks) |-> chunks[i].text]
      r == EmbedBatches(texts, 1, << >>, << >>, failBatch)
  IN IF ~r.ok
       THEN [status |-> "EncodeError", value |-> NpEmpty, sent |-> r.sent,
             calls |-> r.calls]
     ELSE IF r.batches = << >>
       THEN [status |-> "ok", value |-> NpEmpty, sent |-> r.sent, calls |-> r.calls]
     ELSE [status |-> "ok", value |-> r.batches[Len(r.batches)], sent |-> r.sent,
           calls |-> r.calls]

\* generate_embeddings(chunks): the matrix returned (or the exception), the
\* batches sent to model.encode and their number.
GenerateEmbeddings(chunks, failBatch) ==
  LET texts == [i \in 1..Len(chunks) |-> chunks[i].text]
      r == EmbedBatches(texts, 1, << >>, << >>, failBatch)
  IN IF ~r.ok
       THEN [status |-> "EncodeError", value |-> NpEmpty, sent |-> r.sent,
             calls |-> r.calls]
     ELSE IF r.batches = << >>
       THEN [status |-> "ok", value |-> NpEmpty, sent |-> r.sent, calls |-> r.calls]
     ELSE [status |-> "ok", value |-> VStack(r.batches).value, sent |-> r.sent,
           calls |-> r.calls]

\* process_guide_file(file_path)
ProcessGuideFile(dir, file, failBatch) ==
  LET chunks == ChunkText(file.parts, GuidePath(dir, file))
      e == GenerateEmbeddings(chunks, failBatch)
  IN [status |-> e.status, chunks |-> chunks, embeddings |-> e.value, calls |-> e.calls]

\* The outcome of a run that raised: the exception and the locals all_chunks,
\* all_embeddings at the raise.
Failed(status, all_chunks, all_embeddings) ==
  [status |-> status, chunks |-> all_chunks,
   embeddings |-> IF all_embeddings = << >> THEN NpEmpty ELSE all_embeddings[1]]

RECURSIVE GuidesLoop(_, _, _, _, _, _)
\* The loop of process_game_guides over guide_files from file k on;
\* all_embeddings is << >> for None and << a >> for an array a.
GuidesLoop(dir, guide_files, k, all_chunks, all_embeddings, failAt) ==
  IF k > Len(guide_files)
    THEN [status |-> "ok", chunks |-> all_chunks,
          embeddings |-> IF all_embeddings = << >> THEN NpEmpty ELSE all_embeddings[1]]
    ELSE
      LET r == ProcessGuideFile(dir, guide_files[k], failAt)
          stacked == IF all_embeddings = << >>
                       THEN [ok |-> TRUE, value |-> r.embeddings]
                       ELSE VStack(<< all_embeddings[1], r.embeddings >>)
      IN IF r.status # "ok" THEN Failed(r.status, all_chunks, all_embeddings)
         ELSE IF ~stacked.ok
           THEN Failed("ValueError", all_chunks \o r.chunks, all_embeddings)
         ELSE GuidesLoop(dir, guide_files, k + 1, all_chunks \o r.chunks,
                         << stacked.value >>,
                         IF failAt = 0 THEN 0 ELSE failAt - r.calls)

\* process_game_guides up to the call of save_embeddings: the chunks and the
\* embeddings it would save, or the exception it raises.  fs maps the existing
\* guide directories <<platform, game>> to their guide_*.md files.
CollectGameGuides(fs, game_name, platform, failAt) ==
  LET game_dir == << LowerStr(platform), Normalize(game_name) >>
  IN IF game_dir \notin DOMAIN fs THEN Failed("ValueError", << >>, << >>)
     ELSE IF fs[game_dir] = << >> THEN Failed("ValueError", << >>, << >>)
     ELSE GuidesLoop(game_dir, fs[game_dir], 1, << >>, << >>, failAt)

\* ------------------------------------------------------- the persisted store
\* The file name stem of {game_name}_embeddings.json.
EmbeddingsFile(game_name) == Normalize(game_name)

\* save_embeddings that extends the record already on disk.
SaveEmbeddingsExtend(st, game_name, chunks, embeddings) ==
  LET f == EmbeddingsFile(game_name)
      old == IF f \in DOMAIN st THEN st[f]
             ELSE [chunks |-> << >>, embeddings |-> << >>]
      data == [game_name |-> Normalize(game_name),
               model_name |-> "all-MiniLM-L6-v2",
               embedding_dim |-> embedding_dim,
               chunks |-> old.chunks \o chunks,
               embeddings |-> old.embeddings \o ToList(embeddings)]
  IN [k \in DOMAIN st \cup {f} |-> IF k = f THEN data ELSE st[k]]

\* save_embeddings: the directory of records after the write.
SaveEmbeddings(st, game_name, chunks, embeddings) ==
  LET f == EmbeddingsFile(game_name)
      data == [game_name |-> Normalize(game_name),
               model_name |-> "all-MiniLM-L6-v2",
               embedding_dim |-> embedding_dim,
               chunks |-> chunks,
               embeddings |-> ToList(embeddings)]
  IN [k \in DOMAIN st \cup {f} |-> IF k = f THEN data ELSE st[k]]

\* load_embeddings
LoadEmbeddings(st, game_name) ==
  LET f == EmbeddingsFile(game_name)
  IN IF f \notin DOMAIN st
       THEN [status |-> "FileNotFoundError", chunks |-> << >>, embeddings |-> NpEmpty]
       ELSE [status |-> "ok", chunks |-> st[f].chunks,
             embeddings |-> NpArray(st[f].embeddings)]

\* faiss.IndexFlatL2(embedding_dim), nothing added.
EmptyIndex == [d |-> embedding_dim, vectors |-> << >>]

\* build_faiss_index: index.add asserts that the rows have d columns.
BuildFaissIndex(embeddings) ==
  IF NpLen(embeddings) > 0
    THEN LET x == AsFloat32(embeddings)
         IN IF NpCols(x) # embedding_dim
              THEN [status |-> "AssertionError", index |-> EmptyIndex]
              ELSE [status |-> "ok", index |-> [d |-> embedding_dim, vectors |-> x.rows]]
    ELSE [status |-> "ok", index |-> EmptyIndex]

\* index.ntotal
NTotal(index) == Len(index.vectors)

\* A cache that holds one entry: storing a key drops every other.
CachePutEvicting(cache, key, value) ==
  [k \in {key} |-> value]

CachePut(cache, key, value) ==
  [k \in DOMAIN cache \cup {key} |-> IF k = key THEN value ELSE cache[k]]

\* load_or_create_index caching before the load is known to succeed.
LoadOrCreateIndexEager(ic, cc, st, game_name) ==
  LET g == Normalize(game_name)
      l == LoadEmbeddings(st, g)
      b == BuildFaissIndex(l.embeddings)
  IN [status |-> IF l.status # "ok" THEN l.status ELSE b.status,
      hit |-> g \in DOMAIN ic,
      index |-> b.index, chunks |-> l.chunks,
      index_cache |-> CachePut(ic, g, b.index),
      chunks_cache |-> CachePut(cc, g, l.chunks)]

\* load_or_create_index: the pair returned (or the exception) and the caches
\* after the call.
LoadOrCreateIndex(ic, cc, st, game_name) ==
  LET g == Normalize(game_name)
      l == LoadEmbeddings(st, g)
      b == BuildFaissIndex(l.embeddings)
      miss(status) == [status |-> status, hit |-> FALSE,
                       index |-> EmptyIndex, chunks |-> << >>,
                       index_cache |-> ic, chunks_cache |-> cc]
  IN IF g \in DOMAIN ic
       THEN [status |-> "ok", hit |-> TRUE,
             index |-> ic[g], chunks |-> cc[g],
             index_cache |-> ic, chunks_cache |-> cc]
     ELSE IF l.status # "ok" THEN miss(l.status)
     ELSE IF b.status # "ok" THEN miss(b.status)
     ELSE [status |-> "ok", hit |-> FALSE,
           index |-> b.index, chunks |-> l.chunks,
           index_cache |-> CachePut(ic, g, b.index),
           chunks_cache |-> CachePut(cc, g, l.chunks)]

\* ------------------------------------------------------------------- search
RECURSIVE SumSq(_, _, _)
SumSq(u, v, i) ==
  IF i > Len(u) THEN 0
  ELSE (u[i] - v[i]) * (u[i] - v[i]) + SumSq(u, v, i + 1)

\* The squared Euclidean distance IndexFlatL2 computes.
L2Sq(u, v) == SumSq(u, v, 1)

\* The number of stored vectors faiss ranks before position p: the nearer
\* ones and, among equally near ones, those stored earlier.
RankOf(index, q, p) ==
  Cardinality({ j \in 1..NTotal(index) :
                  \/ L2Sq(index.vectors[j], q) < L2Sq(index.vectors[p], q)
                  \/ /\ L2Sq(index.vectors[j], q) = L2Sq(index.vectors[p], q)
                     /\ j < p })

\* IndexFlatL2.search that returns the stored vectors farthest first.
IndexSearchFarthestFirst(index, q, top_k) ==
  [i \in 1..top_k |->
     IF i > NTotal(index) THEN [idx |-> -1, distance |-> FLT_MAX]
     ELSE LET p == CHOOSE p \in 1..NTotal(index) :
                     RankOf(index, q, p) = NTotal(index) - i
          IN [idx |-> p - 1, distance |-> L2Sq(index.vectors[p], q)]]

\* index.search(query_embedding, top_k): the top_k nearest stored vectors,
\* nearest first, as 0-based labels with their distances; label -1 and FLT_MAX
\* where fewer than top_k vectors are stored.
IndexSearch(index, q, top_k) ==
  [i \in 1..top_k |->
     IF i > NTotal(index) THEN [idx |-> -1, distance |-> FLT_MAX]
     ELSE LET p == CHOOSE p \in 1..NTotal(index) : RankOf(index, q, p) = i - 1
          IN [idx |-> p - 1, distance |-> L2Sq(index.vectors[p], q)]]

\* list[idx] raises IndexError: idx is outside -len .. len - 1.
OutOfRange(list, idx) == idx >= Len(list) \/ idx < 0 - Len(list)

\* list[idx] with Python's negative indexing (0-based idx).
PyIndex(list, idx) == IF idx < 0 THEN list[Len(list) + idx + 1] ELSE list[idx + 1]

\* float(1.0 / (1.0 + distance)), kept as the exact fraction num/den.
Score(distance) == [num |-> 1, den |-> 1 + distance]

\* a >= b on scores.
ScoreGeq(a, b) == a.num * b.den >= b.num * a.den

RECURSIVE CollectResults(_, _, _)
\* The result loop of search from hit i on.
CollectResults(found, chunks, i) ==
  IF i > Len(found) THEN << >>
  ELSE IF found[i].idx < Len(chunks)
    THEN << [chunk |-> PyIndex(chunks, found[i].idx),
             score |-> Score(found[i].distance)] >>
           \o CollectResults(found, chunks, i + 1)
  ELSE CollectResults(found, chunks, i + 1)

\* The result loop raises IndexError: a label passes `idx < len(chunks)` and
\* chunks[idx] does not exist (label -1 on an empty chunk list).
ResultsRaise(found, chunks) ==
  \E i \in 1..Len(found) :
    found[i].idx < Len(chunks) /\ OutOfRange(chunks, found[i].idx)

\* The element of a one-element set; { F(x) : x \in {e} } evaluates e once.
TheOnly(S) == CHOOSE x \in S : TRUE

\* search from `index.search` on: l is what load_or_create_index returned,
\* found what index.search returned.
SearchResults(l, found) ==
  LET status == IF ResultsRaise(found, l.chunks) THEN "IndexError" ELSE "ok"
  IN [status |-> status,
      results |-> IF status = "ok" THEN CollectResults(found, l.chunks, 1) ELSE << >>,
      chunks |-> l.chunks,
      index_cache |-> l.index_cache, chunks_cache |-> l.chunks_cache]

\* search after load_or_create_index returned or raised l.
SearchLoaded(l, query, top_k) ==
  LET query_embedding == AsFloat32(Encode(<< query >>)).rows[1]
  IN IF l.status # "ok"
       THEN [status |-> l.status, results |-> << >>, chunks |-> l.chunks,
             index_cache |-> l.index_cache, chunks_cache |-> l.chunks_cache]
       ELSE TheOnly({ SearchResults(l, found) :
                        found \in { IndexSearch(l.index, query_embedding, top_k) } })

\* search: the results (or the exception) and the caches after the call.
Search(ic, cc, st, game_name, query, top_k) ==
  TheOnly({ SearchLoaded(l, query, top_k) :
              l \in { LoadOrCreateIndex(ic, cc, st, game_name) } })

\* The context of the results r of search: one part per result, in rank order.
FormatContext(r) ==
  [status |-> r.status,
   context |-> [i \in 1..Len(r.results) |->
                  [source |-> r.results[i].chunk.source,
                   score |-> r.results[i].score,
                   text |-> r.results[i].chunk.text]],
   index_cache |-> r.index_cache, chunks_cache |-> r.chunks_cache]

\* get_context_for_query
GetContextForQuery(ic, cc, st, game_name, query, top_k) ==
  TheOnly({ FormatContext(r) : r \in { Search(ic, cc, st, game_name, query, top_k) } })

Empty == [k \in {} |-> << >>]

DirSB == << <<"p">>, <<"s", "-", "b">> >>
DirZ == << <<"p">>, <<"z">> >>
DirRaw == << <<"P">>, <<"S", " ", "B">> >>

\* The guide trees the program is started on.
GuideTrees ==
  { Empty,
    (DirSB :> << FileA >>),
    (DirSB :> << FileA, FileB >>),
    (DirSB :> << FileE1, FileE2 >>),
    (DirSB :> << FileB, FileE1 >>),
    (DirSB :> << >>) @@ (DirZ :> << FileE1 >>),
    (DirSB :> << FileB >>) @@ (DirZ :> << FileA >>),
    (DirRaw :> << FileB >>),
    (DirRaw :> << FileB >>) @@ (DirSB :> << FileA >>) }

\* The guide URLs callers pass to download, each as what download_guide makes
\* of it: the game folder guides/platform/game-name and the guide file written.
Urls == { [dir |-> DirSB, file |-> FileC], [dir |-> DirZ, file |-> FileB] }

\* output_path.write_text(final_content): the file is created in the game
\* folder, or replaces the file of that name.
WriteGuide(fs, dir, file) ==
  LET old == IF dir \in DOMAIN fs THEN fs[dir] ELSE << >>
      new == IF \E i \in 1..Len(old) : old[i].name = file.name
               THEN [i \in 1..Len(old) |->
                       IF old[i].name = file.name THEN file ELSE old[i]]
               ELSE Append(old, file)
  IN [d \in DOMAIN fs \cup {dir} |-> IF d = dir THEN new ELSE fs[d]]

RECURSIVE WriteGuides(_, _)
\* The tree after the guides of the URLs in U were downloaded.
WriteGuides(fs, U) ==
  IF U = {} THEN fs
  ELSE LET u == CHOOSE u \in U : TRUE
       IN WriteGuides(WriteGuide(fs, u.dir, u.file), U \ {u})

\* The guide trees the program is started on and those downloads make of them.
AllTrees == { WriteGuides(fs, U) : fs \in GuideTrees, U \in SUBSET Urls }

\* CollectGameGuides tabulated over the guide trees and arguments in use.
CollectTable ==
  [fs \in AllTrees, game_name \in GameNames, platform \in PlatformNames,
   failAt \in 0..MaxFailAt |-> CollectGameGuides(fs, game_name, platform, failAt)]

\* process_game_guides that writes what it has collected when a file fails.
ProcessGameGuidesPartial(st, fs, game_name, platform, failAt) ==
  LET r == CollectTable[fs, game_name, platform, failAt]
  IN [status |-> r.status, chunks |-> r.chunks, embeddings |-> r.embeddings,
      store |-> IF r.status = "ok" \/ r.chunks # << >>
                  THEN SaveEmbeddings(st, Normalize(game_name), r.chunks, r.embeddings)
                  ELSE st]

\* process_game_guides: the outcome and the store after the call.
ProcessGameGuides(st, fs, game_name, platform, failAt) ==
  LET r == CollectTable[fs, game_name, platform, failAt]
  IN [status |-> r.status, chunks |-> r.chunks, embeddings |-> r.embeddings,
      store |-> IF r.status = "ok"
                  THEN SaveEmbeddings(st, Normalize(game_name), r.chunks, r.embeddings)
                  ELSE st]

\* --------------------------------------------------------- _extract_content
\* Text is a sequence of one-character strings here: the extractor strips it
\* and rewrites its line endings.
IsSpace(c) == c \in { " ", "\r", "\n" }

RECURSIVE LStrip(_)
LStrip(t) == IF t # << >> /\ IsSpace(t[1]) THEN LStrip(Tail(t)) ELSE t

RECURSIVE RStrip(_)
RStrip(t) ==
  IF t # << >> /\ IsSpace(t[Len(t)]) THEN RStrip(SubSeq(t, 1, Len(t) - 1)) ELSE t

\* str.strip()
StripText(t) == RStrip(LStrip(t))

RECURSIVE ReplaceCRLF(_)
\* text.replace("\r\n", "\n")
ReplaceCRLF(t) ==
  IF t = << >> THEN << >>
  ELSE IF Len(t) >= 2 /\ t[1] = "\r" /\ t[2] = "\n"
    THEN << "\n" >> \o ReplaceCRLF(SubSeq(t, 3, Len(t)))
  ELSE << t[1] >> \o ReplaceCRLF(Tail(t))

\* text.replace("\r", "\n")
ReplaceCR(t) == [i \in 1..Len(t) |-> IF t[i] = "\r" THEN "\n" ELSE t[i]]

\* if not text.endswith("\n"): text += "\n"
EnsureTrailingNewline(t) ==
  IF t # << >> /\ t[Len(t)] = "\n" THEN t ELSE Append(t, "\n")

\* The element names that count as other content beside a pre block.
OtherContentTags == { "h1", "h2", "h3", "h4", "h5", "h6", "p", "ul", "ol", "table" }

\* One child of the content div: a string (tag "text") or an element with its
\* text; code tells whether a pre element holds a code element.
Node(tag, text, code) == [tag |-> tag, text |-> text, code |-> code]

\* The children a content div is made of.
Nodes ==
  { Node("text", << " " >>, FALSE),
    Node("text", << "w" >>, FALSE),
    Node("pre", << "x", "\r", "\n", "y" >>, FALSE),
    Node("pre", << "z", "\r" >>, FALSE),
    Node("pre", << "v", "\n" >>, FALSE),
    Node("pre", << " " >>, FALSE),
    Node("pre", << "c" >>, TRUE),
    Node("h2", << "h" >>, FALSE),
    Node("p", << "q" >>, FALSE),
    Node("div", << "d" >>, FALSE) }

\* The child counts as other content in the loop over content.children.
IsOtherContent(child) ==
  \/ child.tag = "text" /\ StripText(child.text) # << >>
  \/ child.tag = "pre" /\ child.code
  \/ child.tag \in OtherContentTags

\* The child is assigned to pre_content in the loop over content.children.
IsPreContent(child) ==
  child.tag = "pre" /\ ~child.code /\ StripText(child.text) # << >>

\* pre_content after the loop over content.children: the position of the
\* child assigned last, 0 for None.
PreContent(children) ==
  IF \E i \in 1..Len(children) : IsPreContent(children[i])
    THEN CHOOSE i \in 1..Len(children) :
           /\ IsPreContent(children[i])
           /\ \A j \in (i + 1)..Len(children) : ~IsPreContent(children[j])
    ELSE 0

\* has_other_content after the loop over content.children.
HasOtherContent(children) ==
  \E i \in 1..Len(children) : IsOtherContent(children[i])

\* process_element(child): the markdown of one child, as the kind of markup
\* and the text it carries; << >> for the empty string.
ProcessElement(child) ==
  IF StripText(child.text) = << >> THEN << >>
  ELSE IF child.tag = "pre"
    THEN << [md |-> "fence", text |-> child.text] >>
  ELSE IF child.tag \in { "h1", "h2", "h3", "h4", "h5", "h6" }
    THEN << [md |-> "heading", text |-> StripText(child.text)] >>
  ELSE IF child.tag = "p"
    THEN << [md |-> "paragraph", text |-> StripText(child.text)] >>
  ELSE << [md |-> "text", text |-> StripText(child.text)] >>

RECURSIVE ProcessAll(_)
\* "".join(process_element(child) for child in content.children ...)
ProcessAll(children) ==
  IF children = << >> THEN << >>
  ELSE ProcessElement(children[1]) \o ProcessAll(Tail(children))

\* The outcome of _extract_content that raised.
ExtractRaises == [status |-> "ValueError", mode |-> "", text |-> << >>, parts |-> << >>]

\* _extract_content(soup): the text of a pre-formatted guide, or the markdown
\* parts of a structured one, or ValueError.
ExtractContent(soup) ==
  LET pre == PreContent(soup.children)
      parts == ProcessAll(soup.children)
  IN IF ~soup.found THEN ExtractRaises
     ELSE IF pre # 0 /\ ~HasOtherContent(soup.children)
       THEN [status |-> "ok", mode |-> "pre",
             text |-> EnsureTrailingNewline(
                        ReplaceCR(ReplaceCRLF(soup.children[pre].text))),
             parts |-> << >>]
     ELSE IF parts = << >> THEN ExtractRaises
     ELSE [status |-> "ok", mode |-> "structured", text |-> << >>, parts |-> parts]

\* No _extract_content call has been made.
NoPage == [pc |-> "none", soup |-> [found |-> FALSE, children |-> << >>],
           status |-> "", mode |-> "", text |-> << >>, parts |-> << >>]

\* ------------------------------------------------------------- the scraper
\* The pages the site serves: a pre-formatted guide page, a structured one, a
\* page whose content div holds nothing, a page without a content div.
PageSoups ==
  { [found |-> TRUE, children |-> << Node("pre", << "x", "\r", "\n", "y" >>, FALSE) >>],
    [found |-> TRUE, children |-> << Node("h2", << "h" >>, FALSE),
                                     Node("p", << "q" >>, FALSE) >>],
    [found |-> TRUE, children |-> << >>],
    [found |-> FALSE, children |-> << >>] }

\* content_div.find("pre") on the div of class faqtext.
FindsPre(soup) ==
  soup.found /\ \E i \in 1..Len(soup.children) : soup.children[i].tag = "pre"

\* A guide URL: whether its last path segment is the guide id in digits, and
\* its ?page= parameter (0: none).
ScrapeUrls == { [digits |-> b, page |-> n] : b \in BOOLEAN, n \in 0..MaxPages }

\* _get_page_url(base_url, page)
GetPageUrl(base_url, page) ==
  [base_url EXCEPT !.page = IF page > 1 THEN page ELSE 0]

\* The page of the guide the site serves for a URL.
RemotePage(url) == IF url.page = 0 THEN 1 ELSE url.page

\* guide_id in _get_page: from the utag-data meta element, or the last path
\* segment of the URL when it is all digits.
HasGuideId(url, meta) == meta \/ (url.digits /\ url.page = 0)

\* A scraper after construction and before any download: elapsed is
\* time.time() - last_request_time and since_sent the time since the latest
\* request was sent, both counted up to MinDelay; gap is the time between the
\* two latest requests (MinDelay when there were not two).
NoDownload ==
  [pc |-> "idle", elapsed |-> MinDelay, since_sent |-> MinDelay, gap |-> MinDelay,
   url |-> [digits |-> FALSE, page |-> 0], fetch_url |-> [digits |-> FALSE, page |-> 0],
   page |-> 0, total_pages |-> 0, actual_pages |-> 0,
   soup |-> [found |-> FALSE, children |-> << >>, total |-> 0, page |-> 0],
   api |-> 0, fetched |-> << >>, extracted |-> << >>, all_content |-> << >>,
   response |-> "", status |-> "", returned |-> << >>,
   file |-> << >>, before |-> << >>]

\* The guide file a previous download left at the output path.
OldGuide == << [page |-> 1, mode |-> "pre", text |-> << "o", "\n" >>, parts |-> << >>] >>

\* t time units pass.
Pass(d, t) ==
  [d EXCEPT !.elapsed = Min(MinDelay, @ + t), !.since_sent = Min(MinDelay, @ + t)]

\* self.session.get(...) is sent.
Send(d) == [d EXCEPT !.gap = d.since_sent, !.since_sent = 0]

\* download_guide that writes what it has collected when a page fails.
RaiseWritesPartial(d, status) ==
  [d EXCEPT !.pc = "done", !.status = status,
            !.file = IF d.all_content # << >> THEN d.all_content ELSE @]

\* An exception leaves download_guide: nothing is returned or written.
Raise(d, status) == [d EXCEPT !.pc = "done", !.status = status]

\* Times are counted up to MinDelay: a longer wait is as good as MinDelay.
Durations == 0..MinDelay

\* download_guide(url) up to the first _get_page call, t time units after
\* the scraper was last used; existing is the guide file at the output path
\* of this url (<< >>: none).
StartDownload(d, url, t, existing) ==
  [Pass(d, t) EXCEPT !.pc = "get", !.url = url, !.fetch_url = url,
                     !.file = existing, !.before = existing]

\* _get_page(fetch_url) up to the API endpoints: the delay, the request, the
\* response after latency time units with HTTP status ok or not, then the
\* parse and the look for a pre block and a guide id.
GetPage(d, latency, ok, soup, total, meta) ==
  LET slept == IF d.elapsed < MinDelay THEN Pass(d, MinDelay - d.elapsed) ELSE d
      sent == [Send(slept) EXCEPT !.fetched = Append(@, RemotePage(d.fetch_url))]
      back == [Pass(sent, latency) EXCEPT !.elapsed = 0,
                                          !.response = IF ok THEN "200" ELSE "404"]
      page == [found |-> soup.found, children |-> soup.children,
               total |-> total, page |-> RemotePage(d.fetch_url)]
  IN IF ~ok THEN Raise(back, "HTTPError")
     ELSE IF FindsPre(soup) THEN [back EXCEPT !.soup = page, !.pc = "extract"]
     ELSE IF HasGuideId(d.fetch_url, meta)
       THEN [back EXCEPT !.soup = page, !.pc = "api", !.api = 1]
     ELSE [back EXCEPT !.soup = page, !.pc = "extract"]

\* One iteration of the loop over api_endpoints: the request is sent at once
\* and answers 200 with a document, or another status, or raises.
TryApi(d, latency, outcome, soup, total) ==
  LET back == Pass(Send(d), latency)
  IN IF outcome = "200"
       THEN [back EXCEPT !.pc = "extract",
                         !.soup = [found |-> soup.found, children |-> soup.children,
                                   total |-> total, page |-> d.soup.page]]
     ELSE IF d.api < ApiEndpoints THEN [back EXCEPT !.api = @ + 1]
     ELSE [back EXCEPT !.pc = "extract"]

\* The loop body of download_guide after _get_page returned, on the first
\* pass with the page count taken from the first soup.
ExtractPage(d) ==
  LET first == d.page = 0
      total_pages == IF first THEN d.soup.total ELSE d.total_pages
      actual_pages == IF total_pages > 1 THEN total_pages - 1 ELSE 1
      page == IF first THEN 1 ELSE d.page
      content == ExtractContent(d.soup)
      e == [d EXCEPT !.total_pages = total_pages, !.actual_pages = actual_pages,
                     !.page = page]
  IN IF content.status # "ok" THEN Raise(e, content.status)
     ELSE LET got == [e EXCEPT !.all_content =
                                  Append(@, [page |-> d.soup.page, mode |-> content.mode,
                                             text |-> content.text,
                                             parts |-> content.parts]),
                               !.extracted = Append(@, d.soup.page)]
          IN IF page < actual_pages
               THEN [got EXCEPT !.page = page + 1,
                                !.fetch_url = GetPageUrl(d.url, page + 1),
                                !.pc = "get"]
               ELSE [got EXCEPT !.pc = "write"]

\* The end of download_guide: raise when nothing was collected, else write
\* the file and return.
WriteGuideFile(d) ==
  IF d.all_content = << >> THEN Raise(d, "ValueError")
  ELSE [d EXCEPT !.pc = "done", !.status = "ok",
                 !.file = d.all_content, !.returned = d.all_content]

\* ------------------------------------------------------ get_context_for_query
\* len(encoding.encode(text)): the tokenizer stands at one token a character.
CountTokens(text) == Len(text)

\* f"From {chunk['source']}:\n{chunk['text']}\n"
ContextPart(chunk) == [source |-> chunk.source, text |-> chunk.text]

RECURSIVE ContextLoop(_, _, _, _, _)
\* The loop of GuideRetriever.get_context_for_query from chunk i on.
ContextLoop(chunks, i, context_parts, total_tokens, max_tokens) ==
  IF i > Len(chunks) THEN context_parts
  ELSE LET chunk_tokens == CountTokens(chunks[i].text)
       IN IF total_tokens + chunk_tokens > max_tokens THEN context_parts
          ELSE ContextLoop(chunks, i + 1, Append(context_parts, ContextPart(chunks[i])),
                           total_tokens + chunk_tokens, max_tokens)

\* GuideRetriever.get_context_for_query(query, max_tokens), chunks being what
\* get_relevant_chunks(query) returned.
RetrieverContext(chunks, max_tokens) == ContextLoop(chunks, 1, << >>, 0, max_tokens)

\* A chunk of a store.
RankedChunk(text) == [text |-> text, source |-> "test.md"]

\* What get_relevant_chunks and search return: up to n_results chunks, the
\* most relevant first.
RankedLists ==
  UNION { [1..n -> { RankedChunk(t) : t \in { "a", "bb", "ccc" } }] :
            n \in 0..n_results }

NoContext == [pc |-> "none", via |-> "", ranked |-> << >>, max_tokens |-> 0,
              context |-> << >>]

\* ------------------------------------------------------- process_guide_file
\* The parts a guide text is made of; " " is a blank part.
Paragraphs == { "a", "bb", "ccc", " " }

\* The guide texts, each as its "\n\n"-separated parts.
Texts == UNION { [1..n -> Paragraphs] : n \in 0..MaxParagraphs }

\* str(file_path) of the file a run reads.
JobSource == << <<"p">>, <<"g">>, "guide_1.md" >>

NoJob ==
  [pc |-> "none", chunk_size |-> 0, chunk_overlap |-> 0, parts |-> << >>,
   chunks |-> << >>, status |-> "", embeddings |-> NpEmpty, sent |-> << >>,
   calls |-> 0]

\* A manager built with EmbeddingsManager(chunk_size, chunk_overlap) is about
\* to process a guide file.
Jobs ==
  { [NoJob EXCEPT !.pc = "new", !.chunk_size = size, !.chunk_overlap = overlap,
                  !.parts = parts] :
      size \in 1..MaxChunkSize, overlap \in 0..MaxChunkOverlap, parts \in Texts }

\* ---------------------------------------- generate_embeddings_for_all_games
\* list_games(): the game directories that hold a guide_*.md file.
ListGames(fs) == { d \in DOMAIN fs : fs[d] # << >> }

\* No generate_embeddings_for_all_games run is in progress.
NoGen == [pc |-> "none", games |-> {}, todo |-> {}, attempts |-> << >>,
          processed |-> 0, failed |-> << >>]

\* results = {"processed": 0, "failed": []}; games = self.list_games()
StartGenerateAll(fs) ==
  [NoGen EXCEPT !.pc = "loop", !.games = ListGames(fs), !.todo = ListGames(fs)]

\* A loop that gives up at the first game whose generation fails.
AfterAttemptAbort(g, d, status) ==
  [g EXCEPT !.todo = IF status = "ok" THEN @ \ {d} ELSE {},
            !.attempts = Append(@, [game |-> d, status |-> status]),
            !.processed = IF status = "ok" THEN @ + 1 ELSE @,
            !.failed = IF status = "ok" THEN @ ELSE Append(@, d)]

\* One iteration of the loop over games: _generate_embeddings returned, or
\* raised and the handler recorded the game in results["failed"].
AfterAttempt(g, d, status) ==
  [g EXCEPT !.todo = @ \ {d},
            !.attempts = Append(@, [game |-> d, status |-> status]),
            !.processed = IF status = "ok" THEN @ + 1 ELSE @,
            !.failed = IF status = "ok" THEN @ ELSE Append(@, d)]

\* -------------------------------------------------------------- ChatManager
\* A game_context argument: None or empty (kind "none"), a string (kind
\* "str", the name), or a dict (kind "dict") whose "name" and "platform" keys
\* are there or not; an absent key is << >>, a present one << value >>.
Context(kind, name, platform) == [kind |-> kind, name |-> name, platform |-> platform]

\* The game_context arguments callers pass.
ChatContexts ==
  { Context("none", << >>, << >>),
    Context("str", << "a" >>, << >>),
    Context("dict", << "a" >>, << "snes" >>),
    Context("dict", << "" >>, << >>),
    Context("dict", << >>, << "snes" >>) }

\* How the collaborators of one process_message call answer: the first
\* find_relevant_sections, get_guide_context, the second
\* find_relevant_sections, chat_with_context ("": not called).
Answers ==
  { << "sections", "", "", "ok" >>,
    << "sections", "", "", "Exception" >>,
    << "empty", "ok", "sections", "ok" >>,
    << "empty", "ok", "sections", "Exception" >>,
    << "empty", "ok", "empty", "" >>,
    << "empty", "FileNotFoundError", "", "" >>,
    << "empty", "Exception", "", "" >> }

\* The messages users send.
ChatMessages == { "q" }

\* game_context.get(key): the value is there and truthy.
Truthy(value) == value # << >> /\ value[1] # ""

\* Lines 278-282: a string becomes a dict with platform "unknown"; a dict
\* without a platform gets platform "unknown".
WithPlatform(context) ==
  IF context.kind = "str"
    THEN Context("dict", context.name, << "unknown" >>)
  ELSE IF ~Truthy(context.platform)
    THEN [context EXCEPT !.platform = << "unknown" >>]
  ELSE context

\* f"{game_context['platform']}/{game_context['name']}", as the pair.
GameId(context) == << context.platform[1], context.name[1] >>

\* reset_context that forgets every history when the game changes.
ResetContextClearing(m, context) ==
  IF ~Truthy(context.name) \/ ~Truthy(context.platform) THEN m
  ELSE IF << GameId(context) >> # m.current_game_id
    THEN [m EXCEPT !.current_game_id = << GameId(context) >>,
                   !.chat_history = [id \in {} |-> << >>]]
  ELSE m

\* reset_context(game_context)
ResetContext(m, context) ==
  IF ~Truthy(context.name) \/ ~Truthy(context.platform) THEN m
  ELSE IF << GameId(context) >> # m.current_game_id
    THEN [m EXCEPT !.current_game_id = << GameId(context) >>]
  ELSE m

\* ChatMessage(role, content, timestamp); call is the number of the
\* process_message call that made it.
Message(role, content, n) == [role |-> role, content |-> content, call |-> n]

\* self.chat_history[game_id], [] when the key is not there yet.
HistoryOf(m, id) == IF id \in DOMAIN m.chat_history THEN m.chat_history[id] ELSE << >>

\* self.chat_history[game_id].append(message)
AppendMessage(m, id, msg) ==
  [m EXCEPT !.chat_history =
     [k \in DOMAIN @ \cup {id} |-> IF k = id THEN Append(HistoryOf(m, id), msg) ELSE @[k]]]

\* self.chat_history[game_id][-5:]
LastMessages(history) ==
  SubSeq(history, Max(1, Len(history) - HistoryWindow + 1), Len(history))

\* A ChatManager after construction.
NoChat ==
  [chat_history |-> [id \in {} |-> << >>], current_game_id |-> << >>,
   n |-> 0, context |-> Context("none", << >>, << >>), result |-> "",
   sent |-> << >>]

\* process_message(message, game_context) as call number n; first and second
\* are what the two find_relevant_sections calls return, guide how
\* get_guide_context ends and llm how chat_with_context ends.
ProcessMessage(m, message, game_context, first, guide, second, llm) ==
  LET n == m.n + 1
      called == [m EXCEPT !.n = n, !.context = game_context, !.sent = << >>]
  IN IF game_context.kind = "none" THEN [called EXCEPT !.result = "select_game"]
     ELSE
       LET context == WithPlatform(game_context)
           reset == ResetContext(called, context)
       IN IF context.name = << >> THEN [reset EXCEPT !.result = "KeyError"]
          ELSE
            LET id == GameId(context)
                asked == AppendMessage(reset, id, Message("user", message, n))
                sections == IF first = "sections" THEN first
                            ELSE IF guide = "ok" THEN second ELSE "empty"
            IN IF ~Truthy(context.name) THEN [asked EXCEPT !.result = "specify_name"]
               ELSE IF first = "empty" /\ guide = "FileNotFoundError"
                 THEN [asked EXCEPT !.result = "not_found"]
               ELSE IF first = "empty" /\ guide = "Exception"
                 THEN [asked EXCEPT !.result = "error"]
               ELSE IF sections = "empty" THEN [asked EXCEPT !.result = "no_info"]
               ELSE LET told == [asked EXCEPT !.sent = LastMessages(HistoryOf(asked, id))]
                    IN IF llm = "Exception" THEN [told EXCEPT !.result = "error"]
                       ELSE [AppendMessage(told, id, Message("assistant", "r", n))
                               EXCEPT !.result = "response"]

\* --------------------------------------------------- InteractiveChatSession
\* What the user types at the prompt, as characters.
InputLines ==
  { << "q", "u", "i", "t" >>,
    << "E", "X", "I", "T" >>,
    << " ", "Q", "u", "i", "t", " " >>,
    << "q", "u", "i", "t", "s" >>,
    << "h", "i" >>,
    << >> }

\* What happens at one pass of the loop: a line is read and, unless it is an
\* exit command, chat answers it ("ok"), raises ("Exception") or the user
\* interrupts it; or input() itself is interrupted or raises EOFError.
Event(kind, text, reply) == [kind |-> kind, text |-> text, reply |-> reply]

SessionEvents ==
  { Event("line", t, r) : t \in InputLines, r \in { "ok", "Exception", "KeyboardInterrupt" } }
    \cup { Event("KeyboardInterrupt", << >>, ""), Event("EOFError", << >>, "") }

\* _should_exit that knows the lower-case spellings only.
ShouldExitExactCase(message) ==
  message \in { << "q", "u", "i", "t" >>, << "e", "x", "i", "t" >> }

\* _should_exit(message)
ShouldExit(message) ==
  LowerStr(message) \in { << "q", "u", "i", "t" >>, << "e", "x", "i", "t" >> }

\* An InteractiveChatSession before start().
NoSession ==
  [pc |-> "none", reads |-> 0, event |-> Event("", << >>, ""), sent |-> << >>,
   shown |-> 0, errors |-> 0, ended_by |-> ""]

\* One pass of the while True loop of start().
LoopPass(ss, e) ==
  LET read == [ss EXCEPT !.reads = @ + 1, !.event = e]
      message == StripText(e.text)
  IN IF e.kind = "KeyboardInterrupt"
       THEN [read EXCEPT !.pc = "ended", !.ended_by = "KeyboardInterrupt"]
     ELSE IF e.kind = "EOFError" THEN [read EXCEPT !.errors = @ + 1]
     ELSE IF ShouldExit(message)
       THEN [read EXCEPT !.pc = "ended", !.ended_by = "command"]
     ELSE LET asked == [read EXCEPT !.sent = Append(@, message)]
          IN IF e.reply = "KeyboardInterrupt"
               THEN [asked EXCEPT !.pc = "ended", !.ended_by = "KeyboardInterrupt"]
             ELSE IF e.reply = "Exception" THEN [asked EXCEPT !.errors = @ + 1]
             ELSE [asked EXCEPT !.shown = @ + 1]

\* ------------------------------------------------ GuideRetriever._chunk_text
\* tokens = encoding.encode(text): token j of the text is the number j, so
\* that a chunk shows which tokens of the text it holds.
Tokens(n) == [j \in 1..n |-> j - 1]

\* A slice bound of Python: negative bounds count from the end, and the
\* result is clamped to 0 .. len.
SliceBound(b, len) == IF b < 0 THEN Max(b + len, 0) ELSE Min(b, len)

\* tokens[start:stop]
PySlice(tokens, start, stop) ==
  LET lo == SliceBound(start, Len(tokens))
      hi == SliceBound(stop, Len(tokens))
  IN IF hi <= lo THEN << >> ELSE SubSeq(tokens, lo + 1, hi)

\* No _chunk_text call has been made.
NoChunking ==
  [pc |-> "none", tokens |-> << >>, chunk_size |-> 0, chunk_overlap |-> 0,
   i |-> 0, chunks |-> << >>]

\* _chunk_text up to the loop: tokens encoded, chunks = [], i = 0.
RetrieverChunkStart(n, size, overlap) ==
  [pc |-> "loop", tokens |-> Tokens(n), chunk_size |-> size,
   chunk_overlap |-> overlap, i |-> 0, chunks |-> << >>]

\* A loop that moves on by a whole chunk, leaving no overlap.
RetrieverPassNoOverlap(r) ==
  IF r.i < Len(r.tokens)
    THEN LET chunk_tokens == PySlice(r.tokens, r.i, r.i + r.chunk_size)
         IN [r EXCEPT !.chunks = Append(@, [tokens |-> chunk_tokens,
                                            start_token |-> r.i,
                                            end_token |-> r.i + Len(chunk_tokens)]),
                      !.i = @ + r.chunk_size]
    ELSE [r EXCEPT !.pc = "done"]

\* One test of `while i < len(tokens)`: the loop body, or return chunks.
RetrieverPass(r) ==
  IF r.i < Len(r.tokens)
    THEN LET chunk_tokens == PySlice(r.tokens, r.i, r.i + r.chunk_size)
         IN [r EXCEPT !.chunks = Append(@, [tokens |-> chunk_tokens,
                                            start_token |-> r.i,
                                            end_token |-> r.i + Len(chunk_tokens)]),
                      !.i = @ + r.chunk_size - r.chunk_overlap]
    ELSE [r EXCEPT !.pc = "done"]

\* -------------------------------------------------------------- api/chat.py
\* class ChatSession: `id: str = str(uuid.uuid4())` is evaluated once, when
\* the class body runs; every ChatSession() built without an id gets this
\* value.  The value itself is of no consequence.
ChatSessionDefaultId == "uuid-1"

\* ChatSession(): the class defaults; pydantic copies the empty list.
NewChatSession == [id |-> ChatSessionDefaultId, messages |-> << >>]

\* The session_id values a client sends: none, the empty string, an id the
\* server never issued, and the id the server issues.
RequestSessionIds == {"None", "", "stale", ChatSessionDefaultId}

\* `not session_id`
NoSessionId(session_id) == session_id \in {"None", ""}

\* The messages clients send.
RequestMessages == {"m1", "m2"}

\* ChatMessage(role=role, content=content)
ChatMessage(role, content) == [role |-> role, content |-> content]

\* session.add_message(role, content) on the stored session id.
AddMessage(sessions, id, role, content) ==
  [sessions EXCEPT ![id] = Append(@, ChatMessage(role, content))]

\* chat_sessions = {}; no request served.
NoApi ==
  [chat_sessions |-> [id \in {} |-> << >>], served |-> 0,
   request |-> [session_id |-> "None", message |-> ""],
   created |-> FALSE, session_id |-> "None", status |-> 0]

\* POST /chat: the request with session_id and message; llm tells whether
\* mistral_client.chat_with_context returns or raises.
ChatEndpoint(a, session_id, message, llm) ==
  LET create == NoSessionId(session_id) \/ session_id \notin DOMAIN a.chat_sessions
      session == NewChatSession
      stored == IF create
                  THEN [id \in DOMAIN a.chat_sessions \cup {session.id} |->
                          IF id = session.id THEN session.messages
                          ELSE a.chat_sessions[id]]
                  ELSE a.chat_sessions
      sid == IF create THEN session.id ELSE session_id
      asked == AddMessage(stored, sid, "user", message)
  IN [chat_sessions |-> IF llm THEN AddMessage(asked, sid, "assistant", "reply")
                        ELSE asked,
      served |-> a.served + 1,
      request |-> [session_id |-> session_id, message |-> message],
      created |-> create,
      session_id |-> sid,
      status |-> IF llm THEN 200 ELSE 500]

\* -------------------------------------------------------------------- state
VARIABLES
  guides,        \* guide directory <<platform, game>> -> its guide_*.md files
  store,         \* embeddings file stem -> the persisted JSON record
  index_cache,   \* EmbeddingsManager.index_cache
  chunks_cache,  \* EmbeddingsManager.chunks_cache
  saved,         \* history: file stem -> the arguments of the last save_embeddings
  call,          \* the get_guide_context call in progress
  last,          \* the last completed EmbeddingsManager call and its outcome
  dl,            \* the scraper: its clock, last_request_time and download_guide call
  job,           \* one process_guide_file run: its text, chunks and embeddings
  ctx,           \* one get_context_for_query call: ranked results and context
  html,          \* one _extract_content call: the content region and the text
  peer,          \* a second get_guide_context call, of a concurrent caller
  gen,           \* one generate_embeddings_for_all_games run
  chat,          \* the ChatManager: chat_history, current_game_id, the last call
  session,       \* the InteractiveChatSession loop
  rt,            \* one GuideRetriever._chunk_text run
  api            \* api/chat.py: chat_sessions and the last request

vars == << guides, store, index_cache, chunks_cache, saved, call, last,
           dl, job, ctx, html, peer, gen, chat, session, rt, api >>

\* The state of the guide manager and its embeddings manager.
managerVars == << guides, store, index_cache, chunks_cache, saved, call, last >>

\* The state of the scraper, the chunking pipeline, the context formatter
\* and the markup extractor when run on their own.
toolVars == << dl, job, ctx, html, peer, gen, chat, session, rt, api >>

\* The scraper, the pipeline, the formatter and the extractor.
pureVars == << dl, job, ctx, html >>

\* The second caller, the batch run, the chat manager, the interactive
\* session, the retriever's chunker and the chat API.
appVars == << peer, gen, chat, session, rt, api >>

Idle ==
  [pc |-> "idle", game_name |-> << >>, query |-> "", top_k |-> 0,
   to_scan |-> {}, dir |-> << >>, first |-> "", generations |-> 0,
   generated |-> "", searches |-> 0, status |-> "", context |-> << >>]

NoCall ==
  [op |-> "none", game_name |-> << >>, status |-> "", hit |-> FALSE,
   chunks |-> << >>, embeddings |-> NpEmpty, index |-> EmptyIndex,
   results |-> << >>, top_k |-> 0]

\* The guide manager and its embeddings manager after construction.
ManagerInit ==
  /\ guides \in GuideTrees
  /\ store = Empty
  /\ index_cache = Empty
  /\ chunks_cache = Empty
  /\ saved = Empty
  /\ call = Idle
  /\ last = NoCall

\* No second caller, batch run, chat, session, chunking or API request yet.
AppInit ==
  /\ peer = Idle
  /\ gen = NoGen
  /\ chat = NoChat
  /\ session = NoSession
  /\ rt = NoChunking
  /\ api = NoApi

\* No scraper, pipeline, formatter or extractor call has been made.
ToolInit ==
  /\ dl = NoDownload
  /\ job = NoJob
  /\ ctx = NoContext
  /\ html = NoPage
  /\ AppInit

Init == ManagerInit /\ ToolInit

\* ------------------------------------------------- EmbeddingsManager actions
DoProcessGameGuides ==
  /\ call.pc = "idle"
  /\ \E game_name \in GameNames, platform \in PlatformNames, failAt \in 0..MaxFailAt :
       \E r \in { ProcessGameGuides(store, guides, game_name, platform, failAt) } :
          /\ store' = r.store
          /\ saved' = IF r.status = "ok"
                        THEN CachePut(saved, EmbeddingsFile(game_name),
                                      [chunks |-> r.chunks, embeddings |-> r.embeddings])
                        ELSE saved
          /\ last' = [NoCall EXCEPT !.op = "process_game_guides",
                                    !.game_name = game_name, !.status = r.status,
                                    !.chunks = r.chunks]
  /\ UNCHANGED << guides, index_cache, chunks_cache, call >>
  /\ UNCHANGED toolVars

DoLoadEmbeddings ==
  /\ call.pc = "idle"
  /\ \E game_name \in GameNames :
       \E r \in { LoadEmbeddings(store, game_name) } :
          last' = [NoCall EXCEPT !.op = "load_embeddings", !.game_name = game_name,
                                 !.status = r.status, !.chunks = r.chunks,
                                 !.embeddings = r.embeddings]
  /\ UNCHANGED << guides, store, index_cache, chunks_cache, saved, call >>
  /\ UNCHANGED toolVars

DoLoadOrCreateIndex ==
  /\ call.pc = "idle"
  /\ \E game_name \in GameNames :
       \E r \in { LoadOrCreateIndex(index_cache, chunks_cache, store, game_name) } :
          /\ index_cache' = r.index_cache
          /\ chunks_cache' = r.chunks_cache
          /\ last' = [NoCall EXCEPT !.op = "load_or_create_index",
                                    !.game_name = game_name, !.status = r.status,
                                    !.hit = r.hit, !.chunks = r.chunks,
                                    !.index = r.index]
  /\ UNCHANGED << guides, store, saved, call >>
  /\ UNCHANGED toolVars

DoSearch ==
  /\ call.pc = "idle"
  /\ \E game_name \in GameNames, query \in Queries, top_k \in 1..MaxTopK :
       \E r \in { Search(index_cache, chunks_cache, store, game_name, query, top_k) } :
          /\ index_cache' = r.index_cache
          /\ chunks_cache' = r.chunks_cache
          /\ last' = [NoCall EXCEPT !.op = "search", !.game_name = game_name,
                                    !.status = r.status, !.chunks = r.chunks,
                                    !.results = r.results, !.top_k = top_k]
  /\ UNCHANGED << guides, store, saved, call >>
  /\ UNCHANGED toolVars

\* Chunk lists and matrices a caller of save_embeddings passes directly.
SampleChunk(n) ==
  MakeChunk(<< "x" >>, n, << <<"t">>, <<"t">>, "test.md" >>)

SampleRow(v) == [i \in 1..embedding_dim |-> v]

\* The (chunks, embeddings) pairs of direct calls; the last pair has more
\* vectors than chunks.
SampleSaves ==
  { [chunks |-> << >>, embeddings |-> NpEmpty],
    [chunks |-> << SampleChunk(0) >>,
     embeddings |-> [ndim |-> 2, rows |-> << SampleRow(1) >>, dtype |-> "float64"]],
    [chunks |-> << SampleChunk(1), SampleChunk(0) >>,
     embeddings |-> [ndim |-> 2, rows |-> << SampleRow(2), SampleRow(0) >>,
                     dtype |-> "float32"]],
    [chunks |-> << SampleChunk(1) >>,
     embeddings |-> [ndim |-> 2, rows |-> << SampleRow(0), SampleRow(2) >>,
                     dtype |-> "float32"]] }

\* The names direct calls save under: two spellings of one game and another game.
SaveNames == { <<"S", " ", "B">>, <<"s", "-", "b">>, <<"z">> }

\* save_embeddings called directly.
DoSaveEmbeddings ==
  /\ call.pc = "idle"
  /\ \E game_name \in SaveNames, a \in SampleSaves :
       /\ store' = SaveEmbeddings(store, game_name, a.chunks, a.embeddings)
       /\ saved' = CachePut(saved, EmbeddingsFile(game_name), a)
       /\ last' = [NoCall EXCEPT !.op = "save_embeddings", !.game_name = game_name,
                                 !.status = "ok", !.chunks = a.chunks,
                                 !.embeddings = a.embeddings]
  /\ UNCHANGED << guides, index_cache, chunks_cache, call >>
  /\ UNCHANGED toolVars

\* ------------------------------------------- FileSystemGuideManager.download
\* download(url): scraper.download_guide either raises, and so does download,
\* or writes the guide file; then _generate_embeddings runs inside the try
\* block whose handler only logs, and the path is returned.
DoDownload ==
  /\ call.pc = "idle"
  /\ \E url \in Urls, scraped \in BOOLEAN, failAt \in 0..MaxFailAt :
       IF ~scraped
         THEN /\ last' = [NoCall EXCEPT !.op = "download", !.game_name = url.dir[2],
                                        !.status = "ScrapeError"]
              /\ UNCHANGED << guides, store, saved >>
         ELSE \E fs \in { WriteGuide(guides, url.dir, url.file) } :
              \E r \in { ProcessGameGuides(store, fs, url.dir[2], url.dir[1], failAt) } :
                /\ guides' = fs
                /\ store' = r.store
                /\ saved' = IF r.status = "ok"
                              THEN CachePut(saved, EmbeddingsFile(url.dir[2]),
                                            [chunks |-> r.chunks,
                                             embeddings |-> r.embeddings])
                              ELSE saved
                /\ last' = [NoCall EXCEPT !.op = "download", !.game_name = url.dir[2],
                                          !.status = "ok", !.chunks = r.chunks]
  /\ UNCHANGED << index_cache, chunks_cache, call >>
  /\ UNCHANGED toolVars

\* ------------------------------------- FileSystemGuideManager.get_guide_context
\* A scan that takes every directory for the game's.
DirMatchesAny(normalized_name, dir_name) ==
  Len(normalized_name) >= 0 /\ Len(dir_name) >= 0

\* normalized_name in game_dir.name.lower().replace(" ", "-")
DirMatches(normalized_name, dir_name) ==
  IsSubstring(normalized_name, Normalize(dir_name))

\* The call after its first get_context_for_query returned or raised r.
AfterFirstSearch(c, fs, r) ==
  [c EXCEPT !.first = r.status,
            !.searches = 1,
            !.pc = IF r.status = "FileNotFoundError" THEN "scan" ELSE "done",
            !.to_scan = IF r.status = "FileNotFoundError" THEN DOMAIN fs ELSE {},
            !.status = IF r.status = "FileNotFoundError" THEN "" ELSE r.status,
            !.context = r.context]

\* The call after _generate_embeddings returned or raised r.
AfterGenerate(c, r) ==
  [c EXCEPT !.generations = @ + 1,
            !.generated = r.status,
            !.pc = IF r.status = "ok" THEN "retry" ELSE "done",
            !.status = IF r.status = "ok" THEN "" ELSE r.status]

\* A handler that goes on scanning when the retried query still finds nothing.
AfterRetryScanOn(c, r) ==
  IF r.status = "FileNotFoundError"
    THEN [c EXCEPT !.searches = @ + 1, !.pc = "scan", !.to_scan = @ \ {c.dir}]
    ELSE [c EXCEPT !.searches = @ + 1, !.pc = "done",
                   !.status = r.status, !.context = r.context]

\* The call after the retried get_context_for_query returned or raised r.
AfterRetry(c, r) ==
  [c EXCEPT !.searches = @ + 1, !.pc = "done",
            !.status = r.status, !.context = r.context]

\* Entry: the try block.
GetGuideContext ==
  /\ call.pc = "idle"
  /\ \E game_name \in GameNames, query \in Queries, top_k \in 1..MaxTopK :
       \E r \in { GetContextForQuery(index_cache, chunks_cache, store,
                                      Normalize(game_name), query, top_k) } :
          /\ index_cache' = r.index_cache
          /\ chunks_cache' = r.chunks_cache
          /\ call' = AfterFirstSearch([Idle EXCEPT !.game_name = game_name,
                                                   !.query = query, !.top_k = top_k],
                                      guides, r)
  /\ UNCHANGED << guides, store, saved, last >>
  /\ UNCHANGED toolVars

\* One iteration of the nested directory loops (any enumeration order), or
\* their end: raise FileNotFoundError.
Scan ==
  /\ call.pc = "scan"
  /\ IF call.to_scan = {}
       THEN call' = [call EXCEPT !.pc = "done", !.status = "FileNotFoundError"]
       ELSE \E d \in call.to_scan :
              call' = IF DirMatches(Normalize(call.game_name), d[2])
                        THEN [call EXCEPT !.pc = "generate", !.dir = d]
                        ELSE [call EXCEPT !.to_scan = @ \ {d}]
  /\ UNCHANGED << guides, store, index_cache, chunks_cache, saved, last >>
  /\ UNCHANGED toolVars

\* self._generate_embeddings(game_dir.name, platform_dir.name)
Generate ==
  /\ call.pc = "generate"
  /\ \E failAt \in 0..MaxFailAt :
       \E r \in { ProcessGameGuides(store, guides, call.dir[2], call.dir[1], failAt) } :
          /\ store' = r.store
          /\ saved' = IF r.status = "ok"
                        THEN CachePut(saved, EmbeddingsFile(call.dir[2]),
                                      [chunks |-> r.chunks, embeddings |-> r.embeddings])
                        ELSE saved
          /\ call' = AfterGenerate(call, r)
  /\ UNCHANGED << guides, index_cache, chunks_cache, last >>
  /\ UNCHANGED toolVars

\* "Try again to get context"
Retry ==
  /\ call.pc = "retry"
  /\ \E r \in { GetContextForQuery(index_cache, chunks_cache, store,
                                     Normalize(call.game_name), call.query, call.top_k) } :
        /\ index_cache' = r.index_cache
        /\ chunks_cache' = r.chunks_cache
        /\ call' = AfterRetry(call, r)
  /\ UNCHANGED << guides, store, saved, last >>
  /\ UNCHANGED toolVars

\* The call has returned or raised; the caller goes on.
Return ==
  /\ call.pc = "done"
  /\ call' = Idle
  /\ UNCHANGED << guides, store, index_cache, chunks_cache, saved, last >>
  /\ UNCHANGED toolVars

CallStep == Scan \/ Generate \/ Retry

Next ==
  \/ DoProcessGameGuides
  \/ DoLoadEmbeddings
  \/ DoLoadOrCreateIndex
  \/ DoSearch
  \/ GetGuideContext
  \/ Scan
  \/ Generate
  \/ Retry
  \/ Return

Spec == Init /\ [][Next]_vars

CallNext ==
  \/ GetGuideContext
  \/ Scan
  \/ Generate
  \/ Retry
  \/ Return

\* Callers of get_guide_context alone.  A started call runs on: the program
\* is sequential, nothing else is scheduled while the call is in progress.
FairSpec == Init /\ [][CallNext]_vars /\ WF_vars(CallStep)

StoreInit == Init /\ guides = Empty

StoreNext ==
  \/ DoSaveEmbeddings
  \/ DoLoadEmbeddings
  \/ DoLoadOrCreateIndex
  \/ DoSearch

\* The vector store alone, driven by callers of save_embeddings,
\* load_embeddings, load_or_create_index and search.
StoreSpec == StoreInit /\ [][StoreNext]_vars

\* ----------------------------------------------- process_guide_file alone
\* chunks = self._chunk_text(text, str(file_path))
DoChunkText ==
  /\ job.pc = "new"
  /\ \E chunks \in { ChunkTextWith(job.chunk_size, job.chunk_overlap,
                                    job.parts, JobSource) } :
       job' = [job EXCEPT !.pc = "chunked", !.chunks = chunks]
  /\ UNCHANGED << dl, ctx, html >>
  /\ UNCHANGED managerVars
  /\ UNCHANGED appVars

\* embeddings = self.generate_embeddings(chunks)
DoGenerateEmbeddings ==
  /\ job.pc = "chunked"
  /\ \E failBatch \in 0..MaxFailAt :
       \E e \in { GenerateEmbeddings(job.chunks, failBatch) } :
         job' = [job EXCEPT !.pc = "embedded", !.status = e.status,
                            !.embeddings = e.value, !.sent = e.sent,
                            !.calls = e.calls]
  /\ UNCHANGED << dl, ctx, html >>
  /\ UNCHANGED managerVars
  /\ UNCHANGED appVars

PipelineInit ==
  /\ ManagerInit
  /\ guides = Empty
  /\ job \in Jobs
  /\ dl = NoDownload
  /\ ctx = NoContext
  /\ html = NoPage
  /\ AppInit

PipelineNext ==
  \/ DoChunkText
  \/ DoGenerateEmbeddings

\* process_guide_file on every text, for every chunk_size and chunk_overlap.
PipelineSpec == PipelineInit /\ [][PipelineNext]_vars

\* ------------------------------------------------- GameFAQsScraper actions
\* download_guide is called.
DoStartDownload ==
  /\ dl.pc = "idle"
  /\ \E url \in ScrapeUrls, t \in Durations, existing \in { << >>, OldGuide } :
       dl' = StartDownload(dl, url, t, existing)
  /\ UNCHANGED << job, ctx, html >>
  /\ UNCHANGED managerVars
  /\ UNCHANGED appVars

\* soup = self._get_page(...): the total page count is read from the first
\* soup only.
DoGetPage ==
  /\ dl.pc = "get"
  /\ \E latency \in Durations :
       \/ dl' = GetPage(dl, latency, FALSE, dl.soup, 0, FALSE)
       \/ \E soup \in PageSoups, meta \in BOOLEAN,
             total \in (IF dl.page = 0 THEN 1..MaxPages ELSE {0}) :
            dl' = GetPage(dl, latency, TRUE, soup, total, meta)
  /\ UNCHANGED << job, ctx, html >>
  /\ UNCHANGED managerVars
  /\ UNCHANGED appVars

\* api_response = self.session.get(api_url)
DoTryApi ==
  /\ dl.pc = "api"
  /\ \E latency \in Durations :
       \/ \E outcome \in { "404", "raise" } :
            dl' = TryApi(dl, latency, outcome, dl.soup, 0)
       \/ \E soup \in PageSoups,
             total \in (IF dl.page = 0 THEN 1..MaxPages ELSE {0}) :
            dl' = TryApi(dl, latency, "200", soup, total)
  /\ UNCHANGED << job, ctx, html >>
  /\ UNCHANGED managerVars
  /\ UNCHANGED appVars

\* content = self._extract_content(soup); all_content.append(content)
DoExtractPage ==
  /\ dl.pc = "extract"
  /\ dl' = ExtractPage(dl)
  /\ UNCHANGED << job, ctx, html >>
  /\ UNCHANGED managerVars
  /\ UNCHANGED appVars

\* output_path.write_text(final_content); return
DoWriteGuideFile ==
  /\ dl.pc = "write"
  /\ dl' = WriteGuideFile(dl)
  /\ UNCHANGED << job, ctx, html >>
  /\ UNCHANGED managerVars
  /\ UNCHANGED appVars

\* download_guide has returned or raised: its locals are gone, the scraper
\* keeps its last_request_time.
DoFinishDownload ==
  /\ dl.pc = "done"
  /\ dl' = [NoDownload EXCEPT !.elapsed = dl.elapsed, !.since_sent = dl.since_sent,
                              !.gap = dl.gap]
  /\ UNCHANGED << job, ctx, html >>
  /\ UNCHANGED managerVars
  /\ UNCHANGED appVars

ScraperInit ==
  /\ ManagerInit
  /\ guides = Empty
  /\ dl = NoDownload
  /\ job = NoJob
  /\ ctx = NoContext
  /\ html = NoPage
  /\ AppInit

ScraperNext ==
  \/ DoStartDownload
  \/ DoGetPage
  \/ DoTryApi
  \/ DoExtractPage
  \/ DoWriteGuideFile
  \/ DoFinishDownload

\* One scraper, used for one download_guide call after another.
ScraperSpec == ScraperInit /\ [][ScraperNext]_vars

\* ------------------------------------------------------ _extract_content alone
\* The content regions: no content div, or a div of up to MaxChildren children.
Soups ==
  { [found |-> FALSE, children |-> << >>] }
    \cup { [found |-> TRUE, children |-> c] :
             c \in UNION { [1..n -> Nodes] : n \in 0..MaxChildren } }

DoExtractContent ==
  /\ html.pc = "new"
  /\ \E r \in { ExtractContent(html.soup) } :
       html' = [html EXCEPT !.pc = "done", !.status = r.status, !.mode = r.mode,
                            !.text = r.text, !.parts = r.parts]
  /\ UNCHANGED << dl, job, ctx >>
  /\ UNCHANGED managerVars
  /\ UNCHANGED appVars

ExtractInit ==
  /\ ManagerInit
  /\ guides = Empty
  /\ html \in { [NoPage EXCEPT !.pc = "new", !.soup = soup] : soup \in Soups }
  /\ dl = NoDownload
  /\ job = NoJob
  /\ ctx = NoContext
  /\ AppInit

\* _extract_content on every content region.
ExtractSpec == ExtractInit /\ [][DoExtractContent]_vars

\* --------------------------------------------- get_context_for_query alone
\* GuideRetriever.get_context_for_query(query, max_tokens)
DoRetrieverContext ==
  /\ ctx.pc = "new"
  /\ ctx' = [ctx EXCEPT !.pc = "done", !.via = "GuideRetriever",
                         !.context = RetrieverContext(ctx.ranked, ctx.max_tokens)]
  /\ UNCHANGED << dl, job, html >>
  /\ UNCHANGED managerVars
  /\ UNCHANGED appVars

\* EmbeddingsManager.get_context_for_query(game_name, query, top_k): it takes
\* no token budget; ctx.max_tokens is the budget its caller has.
DoManagerContext ==
  /\ ctx.pc = "new"
  /\ \E r \in { FormatContext(
                    [status |-> "ok",
                     results |-> [i \in 1..Len(ctx.ranked) |->
                                    [chunk |-> ctx.ranked[i], score |-> Score(i)]],
                     index_cache |-> Empty, chunks_cache |-> Empty]) } :
       ctx' = [ctx EXCEPT !.pc = "done", !.via = "EmbeddingsManager",
                          !.context = r.context]
  /\ UNCHANGED << dl, job, html >>
  /\ UNCHANGED managerVars
  /\ UNCHANGED appVars

ContextInit ==
  /\ ManagerInit
  /\ guides = Empty
  /\ ctx \in { [NoContext EXCEPT !.pc = "new", !.ranked = ranked,
                                  !.max_tokens = max_tokens] :
                 ranked \in RankedLists, max_tokens \in 0..MaxTokens }
  /\ dl = NoDownload
  /\ job = NoJob
  /\ html = NoPage
  /\ AppInit

ContextNext ==
  \/ DoRetrieverContext
  \/ DoManagerContext

\* The two get_context_for_query methods on every ranked result list.
ContextSpec == ContextInit /\ [][ContextNext]_vars

DownloadNext ==
  \/ DoDownload
  \/ DoSearch

\* Callers of download and search.
DownloadSpec == Init /\ [][DownloadNext]_vars

\* ------------------------------------ two callers of get_guide_context
\* The second caller enters get_guide_context while the first may be inside
\* its own call: both work on the one EmbeddingsManager and its store.  It
\* leaves top_k to its default.
PeerGetGuideContext ==
  /\ peer.pc = "idle"
  /\ \E game_name \in GameNames, query \in Queries, top_k \in { MaxTopK } :
       \E r \in { GetContextForQuery(index_cache, chunks_cache, store,
                                      Normalize(game_name), query, top_k) } :
          /\ index_cache' = r.index_cache
          /\ chunks_cache' = r.chunks_cache
          /\ peer' = AfterFirstSearch([Idle EXCEPT !.game_name = game_name,
                                                   !.query = query, !.top_k = top_k],
                                      guides, r)
  /\ UNCHANGED << guides, store, saved, last, call >>
  /\ UNCHANGED pureVars
  /\ UNCHANGED << gen, chat, session, rt, api >>

PeerScan ==
  /\ peer.pc = "scan"
  /\ IF peer.to_scan = {}
       THEN peer' = [peer EXCEPT !.pc = "done", !.status = "FileNotFoundError"]
       ELSE \E d \in peer.to_scan :
              peer' = IF DirMatches(Normalize(peer.game_name), d[2])
                        THEN [peer EXCEPT !.pc = "generate", !.dir = d]
                        ELSE [peer EXCEPT !.to_scan = @ \ {d}]
  /\ UNCHANGED managerVars
  /\ UNCHANGED pureVars
  /\ UNCHANGED << gen, chat, session, rt, api >>

PeerGenerate ==
  /\ peer.pc = "generate"
  /\ \E failAt \in 0..MaxFailAt :
       \E r \in { ProcessGameGuides(store, guides, peer.dir[2], peer.dir[1], failAt) } :
          /\ store' = r.store
          /\ saved' = IF r.status = "ok"
                        THEN CachePut(saved, EmbeddingsFile(peer.dir[2]),
                                      [chunks |-> r.chunks, embeddings |-> r.embeddings])
                        ELSE saved
          /\ peer' = AfterGenerate(peer, r)
  /\ UNCHANGED << guides, index_cache, chunks_cache, last, call >>
  /\ UNCHANGED pureVars
  /\ UNCHANGED << gen, chat, session, rt, api >>

PeerRetry ==
  /\ peer.pc = "retry"
  /\ \E r \in { GetContextForQuery(index_cache, chunks_cache, store,
                                     Normalize(peer.game_name), peer.query, peer.top_k) } :
        /\ index_cache' = r.index_cache
        /\ chunks_cache' = r.chunks_cache
        /\ peer' = AfterRetry(peer, r)
  /\ UNCHANGED << guides, store, saved, last, call >>
  /\ UNCHANGED pureVars
  /\ UNCHANGED << gen, chat, session, rt, api >>

PeerReturn ==
  /\ peer.pc = "done"
  /\ peer' = Idle
  /\ UNCHANGED managerVars
  /\ UNCHANGED pureVars
  /\ UNCHANGED << gen, chat, session, rt, api >>

ConcurrentNext ==
  \/ GetGuideContext
  \/ Scan
  \/ Generate
  \/ Retry
  \/ Return
  \/ PeerGetGuideContext
  \/ PeerScan
  \/ PeerGenerate
  \/ PeerRetry
  \/ PeerReturn

\* Two callers of get_guide_context on one manager, their steps interleaved.
ConcurrentSpec == Init /\ [][ConcurrentNext]_vars

\* ---------------------------------------- generate_embeddings_for_all_games
DoStartGenerateAll ==
  /\ gen.pc = "none"
  /\ call.pc = "idle"
  /\ gen' = StartGenerateAll(guides)
  /\ UNCHANGED managerVars
  /\ UNCHANGED pureVars
  /\ UNCHANGED << peer, chat, session, rt, api >>

\* for game in games: self._generate_embeddings(game["name"], game["platform"])
\* inside try/except Exception; the games come in any order.
DoGenerateOne ==
  /\ gen.pc = "loop"
  /\ \E d \in gen.todo, failAt \in 0..MaxFailAt :
       \E r \in { ProcessGameGuides(store, guides, d[2], d[1], failAt) } :
          /\ store' = r.store
          /\ saved' = IF r.status = "ok"
                        THEN CachePut(saved, EmbeddingsFile(d[2]),
                                      [chunks |-> r.chunks, embeddings |-> r.embeddings])
                        ELSE saved
          /\ gen' = AfterAttempt(gen, d, r.status)
  /\ UNCHANGED << guides, index_cache, chunks_cache, call, last >>
  /\ UNCHANGED pureVars
  /\ UNCHANGED << peer, chat, session, rt, api >>

\* return results
DoReturnResults ==
  /\ gen.pc = "loop"
  /\ gen.todo = {}
  /\ gen' = [gen EXCEPT !.pc = "done"]
  /\ UNCHANGED managerVars
  /\ UNCHANGED pureVars
  /\ UNCHANGED << peer, chat, session, rt, api >>

\* The caller has the results; another run can start.
DoFinishGenerateAll ==
  /\ gen.pc = "done"
  /\ gen' = NoGen
  /\ UNCHANGED managerVars
  /\ UNCHANGED pureVars
  /\ UNCHANGED << peer, chat, session, rt, api >>

GenerateAllNext ==
  \/ DoStartGenerateAll
  \/ DoGenerateOne
  \/ DoReturnResults
  \/ DoFinishGenerateAll

\* Callers of generate_embeddings_for_all_games.
GenerateAllSpec == Init /\ [][GenerateAllNext]_vars

\* -------------------------------------------------- ChatManager actions
\* process_message(message, game_context), with what its collaborators
\* (find_relevant_sections, get_guide_context, the language model) answer.
DoProcessMessage ==
  /\ chat.n < MaxCalls
  /\ \E message \in ChatMessages, game_context \in ChatContexts, a \in Answers :
       chat' = ProcessMessage(chat, message, game_context, a[1], a[2], a[3], a[4])
  /\ UNCHANGED managerVars
  /\ UNCHANGED pureVars
  /\ UNCHANGED << peer, gen, session, rt, api >>

\* One ChatManager and its callers.
ChatSpec == Init /\ [][DoProcessMessage]_vars

\* ------------------------------------------ InteractiveChatSession actions
\* start(): the banner is printed and the loop entered.
DoStartSession ==
  /\ session.pc = "none"
  /\ session' = [NoSession EXCEPT !.pc = "input"]
  /\ UNCHANGED managerVars
  /\ UNCHANGED pureVars
  /\ UNCHANGED << peer, gen, chat, rt, api >>

DoLoopPass ==
  /\ session.pc = "input"
  /\ session.reads < MaxInputs
  /\ \E e \in SessionEvents : session' = LoopPass(session, e)
  /\ UNCHANGED managerVars
  /\ UNCHANGED pureVars
  /\ UNCHANGED << peer, gen, chat, rt, api >>

SessionNext ==
  \/ DoStartSession
  \/ DoLoopPass

\* One interactive chat session.
SessionSpec == Init /\ [][SessionNext]_vars

\* ----------------------------------------- GuideRetriever._chunk_text actions
\* _chunk_text(text, filepath) on a retriever built with chunk_size and
\* chunk_overlap; nothing checks the two against each other.
DoRetrieverChunkText ==
  /\ rt.pc = "none"
  /\ \E n \in 0..MaxTokenCount, size \in 1..MaxRetrieverChunkSize :
       \E overlap \in 0..(size + 1) :
         rt' = RetrieverChunkStart(n, size, overlap)
  /\ UNCHANGED managerVars
  /\ UNCHANGED pureVars
  /\ UNCHANGED << peer, gen, chat, session, api >>

\* One pass of the loop; a run is followed for at most MaxExtraPasses passes
\* more than its text has tokens.
DoRetrieverPass ==
  /\ rt.pc = "loop"
  /\ Len(rt.chunks) < Len(rt.tokens) + MaxExtraPasses
  /\ rt' = RetrieverPass(rt)
  /\ UNCHANGED managerVars
  /\ UNCHANGED pureVars
  /\ UNCHANGED << peer, gen, chat, session, api >>

RetrieverNext ==
  \/ DoRetrieverChunkText
  \/ DoRetrieverPass

\* One _chunk_text call.
RetrieverSpec == Init /\ [][RetrieverNext]_vars

\* The call runs on: nothing else is scheduled while the loop is running.
FairRetrieverSpec == RetrieverSpec /\ WF_vars(DoRetrieverPass)

\* ------------------------------------------------------- api/chat.py actions
\* POST /chat
DoChatRequest ==
  /\ api.served < MaxRequests
  /\ \E session_id \in RequestSessionIds, message \in RequestMessages, llm \in BOOLEAN :
       api' = ChatEndpoint(api, session_id, message, llm)
  /\ UNCHANGED managerVars
  /\ UNCHANGED pureVars
  /\ UNCHANGED << peer, gen, chat, session, rt >>

\* The chat API serving requests one after another.
ApiSpec == Init /\ [][DoChatRequest]_vars

\* =================================================================== claims

\* C1: every persisted record holds as many embedding vectors as chunks, and
\* every cached (index, chunks) pair has as many indexed vectors as chunks.
C1_ChunksAndVectorsInLockstep ==
  /\ \A f \in DOMAIN store : Len(store[f].embeddings) = Len(store[f].chunks)
  /\ \A g \in DOMAIN index_cache :
       g \in DOMAIN chunks_cache /\ NTotal(index_cache[g]) = Len(chunks_cache[g])

\* The record process_game_guides writes for file stem f when no encode call
\* fails, on some platform.
IsCompleteRecord(f, data) ==
  \E platform \in PlatformNames :
    LET c == CollectTable[guides, f, platform, 0]
    IN c.status = "ok" /\ data.chunks = c.chunks
       /\ data.embeddings = ToList(c.embeddings)

\* C2: a process_game_guides run in which an encode call fails raises and
\* leaves the store as it was, and every record in the store is the complete
\* record of all the game's files, never a part of it.
C2_FailedGenerationWritesNothing ==
  /\ [](\A f \in DOMAIN store : IsCompleteRecord(f, store[f]))
  /\ [][(DoProcessGameGuides /\ last'.status = "EncodeError") => store' = store]_vars
  /\ [][(Generate /\ call'.generated = "EncodeError")
          => (store' = store /\ call'.pc = "done" /\ call'.status = "EncodeError")]_vars

\* C2 witness: an encode call failed after chunks of an earlier file were
\* collected, for a game that already has a record.
C2_Witness ==
  /\ last.op = "process_game_guides"
  /\ last.status = "EncodeError"
  /\ last.chunks # << >>
  /\ EmbeddingsFile(last.game_name) \in DOMAIN store

\* C3: after save_embeddings(g, C, V), load_or_create_index(g) and search(g)
\* use the chunks C and an index over V, whatever was cached before.
C3_SaveUpdatesCache ==
  LET g == Normalize(last.game_name)
  IN (last.op \in {"load_or_create_index", "search"} /\ last.status = "ok"
      /\ g \in DOMAIN saved)
       => /\ last.chunks = saved[g].chunks
          /\ NTotal(index_cache[g]) = NpLen(saved[g].embeddings)
          /\ \A i \in 1..NTotal(index_cache[g]) :
               index_cache[g].vectors[i] = saved[g].embeddings.rows[i]

\* C4: when the first query finds no record, a guide directory matches and
\* the generation succeeds, the retried query returns context.
C4_GeneratedIndexIsFound ==
  (call.pc = "done" /\ call.first = "FileNotFoundError"
   /\ call.generations = 1 /\ call.generated = "ok")
    => call.status = "ok"

SomeDirMatches(game_name) ==
  \E d \in DOMAIN guides : DirMatches(Normalize(game_name), d[2])

C6_AtMostTopKByScore ==
  (last.op = "search" /\ last.status = "ok")
    => /\ Len(last.results) <= last.top_k
       /\ \A i, j \in 1..Len(last.results) :
            i < j => ScoreGeq(last.results[i].score, last.results[j].score)

\* C6 witness: a search over more chunks than top_k whose results have
\* different scores.
C6_Witness ==
  /\ last.op = "search"
  /\ last.status = "ok"
  /\ last.top_k >= 2
  /\ Len(last.chunks) > last.top_k
  /\ Len(last.results) = last.top_k
  /\ ~ScoreGeq(last.results[2].score, last.results[1].score)

\* C7: load_or_create_index returns the cached pair on a hit and leaves the
\* caches alone; on a miss with a persisted record it builds the index from
\* the record, caches index and chunks under the normalized id and returns
\* them, so that the next call is a hit returning the same pair.
C7_CacheHitOrLoadAndCache ==
  [][DoLoadOrCreateIndex =>
       LET g == Normalize(last'.game_name)
           again == LoadOrCreateIndex(index_cache', chunks_cache', store',
                                      last'.game_name)
       IN /\ g \in DOMAIN index_cache =>
               /\ last'.status = "ok"
               /\ last'.index = index_cache[g]
               /\ last'.chunks = chunks_cache[g]
               /\ UNCHANGED << index_cache, chunks_cache >>
          /\ (g \notin DOMAIN index_cache /\ g \in DOMAIN store) =>
               /\ last'.status = "ok"
               /\ last'.chunks = store[g].chunks
               /\ last'.index.vectors = store[g].embeddings
               /\ g \in DOMAIN index_cache' /\ index_cache'[g] = last'.index
               /\ g \in DOMAIN chunks_cache' /\ chunks_cache'[g] = last'.chunks
               /\ again.hit /\ again.index = last'.index
               /\ again.chunks = last'.chunks]_vars

\* A miss with no record, for normalized id g.
NothingStored(g) == g \notin DOMAIN index_cache /\ g \notin DOMAIN store

\* C8: with no persisted record, load_embeddings raises FileNotFoundError, and
\* so do load_or_create_index and search on a cache miss; the caches and the
\* store are left as they were.
C8_MissingRecordRaisesNotFound ==
  /\ [][(DoLoadEmbeddings /\ EmbeddingsFile(last'.game_name) \notin DOMAIN store)
          => (last'.status = "FileNotFoundError"
              /\ UNCHANGED << store, index_cache, chunks_cache >>)]_vars
  /\ [][((DoLoadOrCreateIndex \/ DoSearch) /\ NothingStored(Normalize(last'.game_name)))
          => (last'.status = "FileNotFoundError"
              /\ UNCHANGED << store, index_cache, chunks_cache >>)]_vars

\* C8 witness: a search missed cache and store while another game is cached.
C8_Witness ==
  /\ last.op = "search"
  /\ last.status = "FileNotFoundError"
  /\ NothingStored(Normalize(last.game_name))
  /\ index_cache # Empty

\* C9: load_embeddings returns the chunks and the vectors of the latest
\* save_embeddings for the game, and raises when there was none.
C9_LoadReturnsLatestSave ==
  LET f == EmbeddingsFile(last.game_name)
  IN last.op = "load_embeddings" =>
       IF f \in DOMAIN saved
         THEN /\ last.status = "ok"
              /\ last.chunks = saved[f].chunks
              /\ ArrayEqual(last.embeddings, saved[f].embeddings)
         ELSE last.status = "FileNotFoundError"

\* C9 witness: a load returned a float32 matrix saved with fewer chunks than
\* vectors, read back as float64.
C9_Witness ==
  /\ last.op = "load_embeddings"
  /\ last.status = "ok"
  /\ saved[EmbeddingsFile(last.game_name)].embeddings.dtype = "float32"
  /\ last.embeddings.dtype = "float64"
  /\ NpLen(last.embeddings) = 2
  /\ Len(last.chunks) = 1

\* C10: the normalized id is the sole key: the cache holds one entry per
\* normalized id, and load_embeddings, load_or_create_index and search under
\* any spelling return the record last saved under any spelling of the id.
C10_NormalizedIdIsSoleKey ==
  LET g == Normalize(last.game_name)
  IN /\ \A k \in DOMAIN index_cache \cup DOMAIN chunks_cache \cup DOMAIN store :
          Normalize(k) = k
     /\ (last.op \in {"load_embeddings", "load_or_create_index", "search"}
         /\ g \in DOMAIN saved)
          => (last.status # "FileNotFoundError" /\ last.chunks = saved[g].chunks)

\* C11: when download(url) has returned for game g, the persisted record of g
\* is the one generated from all of g's guide files, the downloaded one
\* included, and a later search for g returns chunks of that record.
C11_DownloadRegeneratesIndex ==
  LET g == Normalize(last.game_name)
  IN /\ (last.op = "download" /\ last.status = "ok")
          => (g \in DOMAIN store /\ IsCompleteRecord(g, store[g]))
     /\ (last.op = "search" /\ last.status = "ok" /\ g \in DOMAIN store)
          => last.chunks = store[g].chunks

\* The non-empty paragraphs of the text of the job, stripped.
JobParagraphs == StripNonEmpty(job.parts)

\* The summed length of the paragraphs of chunk c: its text without the
\* separators between them.
ParagraphLength(c) == Len(c.text) - Len("\n\n") * (Len(c.paragraphs) - 1)

\* C15: when no paragraph is longer than chunk_size, no chunk's paragraphs
\* sum to more than chunk_size, whatever chunk_overlap is.
C15_ChunksWithinChunkSize ==
  (/\ job.pc \in {"chunked", "embedded"}
   /\ \A i \in 1..Len(JobParagraphs) : Len(JobParagraphs[i]) <= job.chunk_size)
    => \A k \in 1..Len(job.chunks) : ParagraphLength(job.chunks[k]) <= job.chunk_size

\* The text of chunk c is its recorded paragraphs, joined.
NamesItsParagraphs(c) ==
  /\ c.paragraphs # << >>
  /\ \A j \in 1..Len(c.paragraphs) : c.paragraphs[j] \in 0..(Len(JobParagraphs) - 1)
  /\ c.text = Join([j \in 1..Len(c.paragraphs) |-> JobParagraphs[c.paragraphs[j] + 1]],
                   "\n\n")

\* Chunk cur starts with the last m paragraphs of chunk prev and goes on with
\* the paragraph that follows prev in the text.
RepeatsLast(prev, cur, m) ==
  /\ Len(prev.paragraphs) >= m
  /\ Len(cur.paragraphs) >= m + 1
  /\ SubSeq(cur.paragraphs, 1, m)
       = SubSeq(prev.paragraphs, Len(prev.paragraphs) - m + 1, Len(prev.paragraphs))
  /\ cur.paragraphs[m + 1] = prev.paragraphs[Len(prev.paragraphs)] + 1
  /\ NamesItsParagraphs(prev)
  /\ NamesItsParagraphs(cur)

\* C16 as stated: with chunk_overlap < chunk_size, every chunk after the first
\* starts with exactly the last chunk_overlap paragraphs of its predecessor,
\* followed by at least one new paragraph.
C16_ChunkRepeatsOverlap ==
  (job.pc \in {"chunked", "embedded"} /\ job.chunk_overlap < job.chunk_size)
    => \A k \in 2..Len(job.chunks) :
         RepeatsLast(job.chunks[k - 1], job.chunks[k], job.chunk_overlap)

\* C16 amended: with chunk_overlap < chunk_size, every chunk after the first
\* starts with exactly the last min(chunk_overlap, n) paragraphs of its
\* predecessor, n being the number of paragraphs of the predecessor, followed
\* by at least one new paragraph.
C16_ChunkRepeatsUpToOverlap ==
  (job.pc \in {"chunked", "embedded"} /\ job.chunk_overlap < job.chunk_size)
    => \A k \in 2..Len(job.chunks) :
         RepeatsLast(job.chunks[k - 1], job.chunks[k],
                     Min(job.chunk_overlap, Len(job.chunks[k - 1].paragraphs)))

\* C16 witness: a chunk that follows a chunk of fewer than chunk_overlap
\* paragraphs, and a chunk that follows one of more.
C16_Witness ==
  /\ job.pc = "chunked"
  /\ job.chunk_overlap < job.chunk_size
  /\ Len(job.chunks) >= 3
  /\ Len(job.chunks[1].paragraphs) < job.chunk_overlap
  /\ Len(job.chunks[2].paragraphs) >= job.chunk_overlap

RECURSIVE NewParagraphs(_, _)
\* The paragraph indices of the chunks from chunk k on, without the ones each
\* chunk shares with its predecessor.
NewParagraphs(chunks, k) ==
  IF k > Len(chunks) THEN << >>
  ELSE LET cur == chunks[k].paragraphs
           shared == IF k = 1 THEN {}
                     ELSE { j \in 1..Len(cur) :
                              \E h \in 1..Len(chunks[k - 1].paragraphs) :
                                chunks[k - 1].paragraphs[h] = cur[j] }
       IN SubSeq(cur, Cardinality(shared) + 1, Len(cur)) \o NewParagraphs(chunks, k + 1)

\* C17: the chunks, each without the prefix it shares with its predecessor,
\* are the non-empty paragraphs of the text, each once and in order, the last
\* accumulator included; each chunk's paragraph range names the paragraphs
\* its text is made of.
C17_ChunksReconstructText ==
  job.pc \in {"chunked", "embedded"}
    => /\ \A k \in 1..Len(job.chunks) : NamesItsParagraphs(job.chunks[k])
       /\ NewParagraphs(job.chunks, 1) = [i \in 1..Len(JobParagraphs) |-> i - 1]

\* C17 witness: a text with a blank part, chunked with overlap into three or
\* more chunks, the last one under size.
C17_Witness ==
  /\ job.pc = "chunked"
  /\ Len(job.parts) > Len(JobParagraphs)
  /\ job.chunk_overlap >= 1
  /\ Len(job.chunks) >= 3
  /\ ParagraphLength(job.chunks[Len(job.chunks)]) < job.chunk_size

RECURSIVE Flatten(_)
Flatten(lists) == IF lists = << >> THEN << >> ELSE lists[1] \o Flatten(Tail(lists))

\* C18: generate_embeddings over n chunks calls the model ceil(n / batch_size)
\* times, on consecutive slices of at most batch_size texts in input order,
\* and returns n rows, row i being the model's vector for chunk i.
C18_BatchesInInputOrder ==
  (job.pc = "embedded" /\ job.status = "ok")
    => LET n == Len(job.chunks)
       IN /\ job.calls = (n + batch_size - 1) \div batch_size
          /\ Len(job.sent) = job.calls
          /\ \A b \in 1..Len(job.sent) :
               Len(job.sent[b]) >= 1 /\ Len(job.sent[b]) <= batch_size
          /\ Flatten(job.sent) = [i \in 1..n |-> job.chunks[i].text]
          /\ NpLen(job.embeddings) = n
          /\ \A i \in 1..n : job.embeddings.rows[i] = EncodeOne(job.chunks[i].text)

\* C18 witness: more chunks than one batch holds, the last batch not full,
\* chunks with different vectors.
C18_Witness ==
  /\ job.pc = "embedded"
  /\ job.status = "ok"
  /\ Len(job.chunks) > batch_size
  /\ Len(job.chunks) % batch_size # 0
  /\ job.embeddings.rows[1] # job.embeddings.rows[Len(job.chunks)]

\* The pages a guide of T pages is to be read from: 1..T-1, or 1 when T = 1.
PagesToRead(T) == [i \in 1..(IF T > 1 THEN T - 1 ELSE 1) |-> i]

\* C12: of a guide whose first page reports T pages, download_guide fetches
\* and extracts pages 1..T-1 (page 1 when T = 1) in ascending order, each
\* once, and never fetches page T when T > 1.
C12_LastPageSkipped ==
  /\ dl.total_pages > 1 => \A i \in 1..Len(dl.fetched) : dl.fetched[i] # dl.total_pages
  /\ dl.status = "ok" => /\ dl.fetched = PagesToRead(dl.total_pages)
                         /\ dl.extracted = PagesToRead(dl.total_pages)

\* C13: when a page fetch fails or a page's content cannot be extracted,
\* download_guide raises, returns no document and leaves the guide file at
\* the output path as it was before the call.
C13_FailedPageFailsDownload ==
  /\ [](dl.response = "404" => dl.status = "HTTPError")
  /\ [](dl.status \in { "HTTPError", "ValueError" }
          => (dl.pc = "done" /\ dl.returned = << >> /\ dl.file = dl.before))
  /\ [][(dl.pc = "extract" /\ ExtractContent(dl.soup).status # "ok")
          => (dl'.pc = "done" /\ dl'.status = "ValueError")]_vars

\* C13 witness: a later page failed after the content of an earlier page was
\* collected, with a guide file of an earlier download at the output path.
C13_Witness ==
  /\ dl.pc = "done"
  /\ dl.status \in { "HTTPError", "ValueError" }
  /\ dl.all_content # << >>
  /\ dl.before = OldGuide
  /\ dl.file = OldGuide

\* C14: any two consecutive requests of one scraper are at least MinDelay
\* time units apart.
C14_RequestsSpaced == dl.gap >= MinDelay

\* The token count of the chunks of a context.
RECURSIVE SumTokens(_)
SumTokens(parts) ==
  IF parts = << >> THEN 0 ELSE CountTokens(parts[1].text) + SumTokens(Tail(parts))

\* C19: the context holds a prefix of the ranked results, each chunk whole,
\* in rank order; their tokens sum to at most max_tokens; the first result
\* left out is one that would exceed the budget.
C19_ContextWithinBudget ==
  ctx.pc = "done"
    => LET n == Len(ctx.context)
       IN /\ n <= Len(ctx.ranked)
          /\ \A i \in 1..n : /\ ctx.context[i].text = ctx.ranked[i].text
                               /\ ctx.context[i].source = ctx.ranked[i].source
          /\ SumTokens(ctx.context) <= ctx.max_tokens
          /\ n < Len(ctx.ranked)
               => SumTokens(ctx.context) + CountTokens(ctx.ranked[n + 1].text)
                    > ctx.max_tokens

\* The positions of the non-empty pre blocks among the children.
NonEmptyPres(children) ==
  { i \in 1..Len(children) :
      children[i].tag = "pre" /\ StripText(children[i].text) # << >> }

\* The text t with its line breaks taken out.
RECURSIVE WithoutBreaks(_)
WithoutBreaks(t) ==
  IF t = << >> THEN << >>
  ELSE IF t[1] \in { "\r", "\n" } THEN WithoutBreaks(Tail(t))
  ELSE << t[1] >> \o WithoutBreaks(Tail(t))

\* C20: pre-formatted mode is used only when the children hold exactly one
\* non-empty pre block, without a code element, and no heading, paragraph,
\* list, table or non-blank string beside it, and then returns that block's
\* text with "\n" line endings and a trailing newline; in every other case
\* the mode is structured and the text of every pre block is in the result.
C20_PreModeOnlyForSinglePre ==
  (html.pc = "done" /\ html.status = "ok")
    => LET children == html.soup.children
           pres == NonEmptyPres(children)
           single == /\ Cardinality(pres) = 1
                     /\ \A i \in pres : ~children[i].code
                     /\ \A i \in 1..Len(children) :
                          /\ children[i].tag \notin OtherContentTags
                          /\ ~(children[i].tag = "text"
                               /\ StripText(children[i].text) # << >>)
       IN /\ html.mode = "pre" =>
               /\ single
               /\ \A i \in pres :
                    /\ WithoutBreaks(html.text) = WithoutBreaks(children[i].text)
                    /\ html.text[Len(html.text)] = "\n"
                    /\ \A k \in 1..Len(html.text) : html.text[k] # "\r"
          /\ ~single =>
               /\ html.mode = "structured"
               /\ \A i \in pres :
                    \E k \in 1..Len(html.parts) : html.parts[k].text = children[i].text

\* The normalized game ids in use: those of the callers and of the guide
\* directories.
GameIds ==
  { Normalize(g) : g \in GameNames } \cup { Normalize(d[2]) : d \in { DirSB, DirZ, DirRaw } }

\* What is kept of game id g: its persisted record, cached index and cached
\* chunks (<< >> where there is none).
EntryOf(st, ic, cc, g) ==
  [record |-> IF g \in DOMAIN st THEN << st[g] >> ELSE << >>,
   index |-> IF g \in DOMAIN ic THEN << ic[g] >> ELSE << >>,
   chunks |-> IF g \in DOMAIN cc THEN << cc[g] >> ELSE << >>]

\* The game id a call works for, in a step from record c to record d.
ActorId(c, d) == Normalize(IF c.pc = "idle" THEN d.game_name ELSE c.game_name)

\* C21: a step that a caller takes for one game id leaves the persisted
\* record, the cached index and the cached chunks of every other game id as
\* they were, so each game's record, cache entry and search results are those
\* of its own caller running alone.
C21_DifferentGamesDoNotInterfere ==
  [][\A g \in GameIds :
       (\/ call' # call /\ ActorId(call, call') # g
        \/ peer' # peer /\ ActorId(peer, peer') # g)
         => EntryOf(store', index_cache', chunks_cache', g)
              = EntryOf(store, index_cache, chunks_cache, g)]_vars

\* The games attempted so far, as a set.
Attempted == { gen.attempts[i].game : i \in 1..Len(gen.attempts) }

\* C22: generate_embeddings_for_all_games attempts every listed game exactly
\* once, goes on to the remaining games after a failure, and returns with
\* processed + the number of failed entries equal to the number of listed
\* games.
C22_EveryGameAttemptedOnce ==
  /\ gen.pc \in { "loop", "done" } =>
       /\ gen.games = ListGames(guides)
       /\ Attempted \cup gen.todo = gen.games
       /\ Attempted \cap gen.todo = {}
       /\ \A i, j \in 1..Len(gen.attempts) :
            gen.attempts[i].game = gen.attempts[j].game => i = j
       /\ gen.processed
            = Cardinality({ i \in 1..Len(gen.attempts) : gen.attempts[i].status = "ok" })
       /\ Len(gen.failed)
            = Cardinality({ i \in 1..Len(gen.attempts) : gen.attempts[i].status # "ok" })
  /\ gen.pc = "done" =>
       /\ Attempted = gen.games
       /\ gen.processed + Len(gen.failed) = Cardinality(gen.games)

\* C22 witness: a run over two games that returned after the first game
\* failed and the second was processed.
C22_Witness ==
  /\ gen.pc = "done"
  /\ Len(gen.attempts) = 2
  /\ gen.attempts[1].status # "ok"
  /\ gen.attempts[2].status = "ok"
  /\ gen.processed = 1
  /\ Len(gen.failed) = 1

\* The step is a process_message call.
IsProcessMessage == chat'.n = chat.n + 1

\* The game a context names: its id when it has a name, << >> otherwise.
GameOf(game_context) ==
  IF game_context.kind # "none" /\ Truthy(game_context.name)
    THEN << GameId(WithPlatform(game_context)) >>
    ELSE << >>

\* The ids a history is or may be kept under.
ChatIds == { GameId(WithPlatform(c)) : c \in { c \in ChatContexts : c.name # << >> } }

\* C23: a successful process_message for game A appends one user message
\* and then one assistant message to A's history; a process_message for a
\* game B leaves the history of every other game as it was and sets
\* current_game_id to B.
C23_HistoryPerGame ==
  [][IsProcessMessage =>
       LET game == GameOf(chat'.context)
       IN /\ chat'.result = "response" =>
               /\ game # << >>
               /\ HistoryOf(chat', game[1])
                    = HistoryOf(chat, game[1])
                        \o << Message("user", "q", chat'.n),
                              Message("assistant", "r", chat'.n) >>
          /\ game # << >> =>
               /\ chat'.current_game_id = game
               /\ \A id \in ChatIds \ { game[1] } :
                    /\ HistoryOf(chat', id) = HistoryOf(chat, id)
                    /\ id \in DOMAIN chat'.chat_history <=> id \in DOMAIN chat.chat_history]_vars

\* C23 witness: after a successful call for one game and then a successful
\* call for another, both histories hold their two messages and
\* current_game_id is the second game.
C23_Witness ==
  /\ chat.result = "response"
  /\ chat.n = 2
  /\ chat.current_game_id = << << "unknown", "a" >> >>
  /\ Len(HistoryOf(chat, << "snes", "a" >>)) = 2
  /\ Len(HistoryOf(chat, << "unknown", "a" >>)) = 2
  /\ HistoryOf(chat, << "snes", "a" >>)[1].call = 1

\* C29: in every history an assistant message comes right after the user
\* message of the same call; every call that carries a game context appends
\* its user message, also when it returns early without an assistant
\* message; the language model is passed at most the last HistoryWindow
\* entries.
C29_UserMessageAlwaysAppended ==
  [][IsProcessMessage =>
       /\ \A id \in DOMAIN chat'.chat_history :
            \A i \in 1..Len(chat'.chat_history[id]) :
              chat'.chat_history[id][i].role = "assistant" =>
                /\ i > 1
                /\ chat'.chat_history[id][i - 1].role = "user"
                /\ chat'.chat_history[id][i - 1].call = chat'.chat_history[id][i].call
       /\ chat'.context.kind # "none" =>
            \E id \in DOMAIN chat'.chat_history :
              LET h == chat'.chat_history[id]
                  k == IF chat'.result = "response" THEN Len(h) - 1 ELSE Len(h)
              IN /\ k >= 1
                 /\ h[k] = Message("user", "q", chat'.n)
                 /\ Len(h) = Len(HistoryOf(chat, id)) + (IF chat'.result = "response" THEN 2 ELSE 1)
       /\ Len(chat'.sent) <= HistoryWindow
       /\ chat'.sent # << >> =>
            \E id \in DOMAIN chat'.chat_history :
              \E k \in 1..Len(chat'.chat_history[id]) :
                /\ chat'.chat_history[id][k] = Message("user", "q", chat'.n)
                /\ chat'.sent = LastMessages(SubSeq(chat'.chat_history[id], 1, k))]_vars

\* The line, without the blanks around it, is quit or exit in some letter
\* case.
SaysQuitOrExit(text) ==
  \E w \in { << "q", "u", "i", "t" >>, << "e", "x", "i", "t" >> } :
    /\ Len(StripText(text)) = Len(w)
    /\ \A i \in 1..Len(w) : Lower(StripText(text)[i]) = w[i]

\* C24: the session loop ends only on a quit or exit line, in any letter
\* case, or on a keyboard interrupt; after an exception the error is
\* reported and the loop reads on; an exit command is never sent to the
\* companion.
C24_LoopEndsOnlyOnExit ==
  /\ [][(session.pc = "input" /\ session'.pc = "ended")
          => \/ session'.event.kind = "line" /\ SaysQuitOrExit(session'.event.text)
             \/ session'.event.kind = "KeyboardInterrupt"
             \/ session'.event.reply = "KeyboardInterrupt"]_vars
  /\ [][(session.pc = "input" /\ session'.reads = session.reads + 1)
          => /\ (session'.event.kind = "line" /\ SaysQuitOrExit(session'.event.text))
                  => (session'.pc = "ended" /\ session'.sent = session.sent)
             /\ (\/ session'.event.kind = "EOFError"
                 \/ /\ session'.event.kind = "line"
                    /\ ~SaysQuitOrExit(session'.event.text)
                    /\ session'.event.reply = "Exception")
                  => (session'.pc = "input" /\ session'.errors = session.errors + 1)]_vars
  /\ [](\A i \in 1..Len(session.sent) : ~SaysQuitOrExit(session.sent[i]))

\* C24 witness: the session went on after an exception and an answered
\* message, and ended on an upper-case exit command.
C24_Witness ==
  /\ session.pc = "ended"
  /\ session.ended_by = "command"
  /\ session.event.text = << "E", "X", "I", "T" >>
  /\ session.errors = 1
  /\ session.shown = 1
  /\ Len(session.sent) = 2

\* No guide directory's normalized name contains the normalized game name.
NoDirectoryContains(game_name) ==
  \A d \in DOMAIN guides :
    ~IsSubstring(Normalize(game_name), Normalize(d[2]))

\* The call is for a game with neither a persisted record nor such a directory.
UnknownGame ==
  /\ call.pc # "idle"
  /\ EmbeddingsFile(call.game_name) \notin DOMAIN store
  /\ NoDirectoryContains(call.game_name)

C26_ResultsAreDistinctNeighbours ==
  (last.op = "search" /\ last.status \in {"ok", "IndexError"})
    => /\ last.status = "ok"
       /\ Len(last.results) = Min(last.top_k, Len(last.chunks))
       /\ \A i \in 1..Len(last.results) :
            last.results[i].score # Score(FLT_MAX)
       /\ \A i, j \in 1..Len(last.results) :
            i < j => last.results[i].chunk # last.results[j].chunk

\* C27: index_cache and chunks_cache have the same keys, every key is a
\* normalized game id, no step removes a key, and each cached pair is the
\* index and the chunk list of one load of the persisted record: it is
\* entered together from the record on disk and stays as entered.
C27_CachesArePairedAndGrowOnly ==
  /\ [](/\ DOMAIN index_cache = DOMAIN chunks_cache
         /\ \A k \in DOMAIN index_cache : Normalize(k) = k)
  /\ [][/\ DOMAIN index_cache \subseteq DOMAIN index_cache'
         /\ DOMAIN chunks_cache \subseteq DOMAIN chunks_cache'
         /\ \A k \in DOMAIN index_cache' :
              IF k \in DOMAIN index_cache
                THEN /\ index_cache'[k] = index_cache[k]
                     /\ chunks_cache'[k] = chunks_cache[k]
                ELSE /\ k \in DOMAIN store
                     /\ chunks_cache'[k] = LoadEmbeddings(store, k).chunks
                     /\ index_cache'[k]
                          = BuildFaissIndex(LoadEmbeddings(store, k).embeddings).index]_vars

\* C27 witness: two games are cached and the record of one has been replaced
\* on disk since, so its cached pair is that of the earlier load.
C27_Witness ==
  /\ Cardinality(DOMAIN index_cache) = 2
  /\ \E k \in DOMAIN index_cache :
       /\ k \in DOMAIN store
       /\ chunks_cache[k] # store[k].chunks
       /\ NTotal(index_cache[k]) = Len(chunks_cache[k])
       /\ Len(chunks_cache[k]) > 0

\* The number of tokens of the text two chunks both hold.
Shared(a, b) ==
  Cardinality({ a.tokens[k] : k \in 1..Len(a.tokens) }
                \cap { b.tokens[k] : k \in 1..Len(b.tokens) })

\* Every token of the text is in some chunk.
Covered ==
  \A j \in 1..Len(rt.tokens) :
    \E c \in 1..Len(rt.chunks) :
      \E k \in 1..Len(rt.chunks[c].tokens) : rt.chunks[c].tokens[k] = rt.tokens[j]

\* The call ends exactly when chunk_overlap < chunk_size (or the text has no
\* token); each pass moves the start by chunk_size - chunk_overlap, which
\* with chunk_overlap >= chunk_size never moves it forward.
TerminatesOnlyWithSmallerOverlap ==
  /\ ((rt.pc = "loop" /\ (rt.chunk_overlap < rt.chunk_size \/ rt.tokens = << >>))
        ~> (rt.pc = "done"))
  /\ [](rt.pc = "done"
          => (rt.chunk_overlap < rt.chunk_size \/ rt.tokens = << >>))
  /\ []((rt.pc = "loop" /\ rt.chunk_overlap >= rt.chunk_size) => rt.i <= 0)
  /\ [][(rt.pc = "loop" /\ rt'.pc = "loop")
          => rt'.i = rt.i + rt.chunk_size - rt.chunk_overlap]_vars

\* C28 as stated: termination exactly when chunk_overlap < chunk_size, and on
\* termination consecutive chunks share exactly chunk_overlap tokens and
\* every token is covered.
C28_ConsecutiveChunksShareOverlap ==
  /\ TerminatesOnlyWithSmallerOverlap
  /\ []((rt.pc = "done" /\ rt.tokens # << >>)
          => /\ Covered
             /\ \A c \in 1..(Len(rt.chunks) - 1) :
                  Shared(rt.chunks[c], rt.chunks[c + 1]) = rt.chunk_overlap)

\* C28 amended: as stated, but consecutive chunks share exactly chunk_overlap
\* tokens when the earlier chunk holds chunk_size tokens; when it is cut
\* short by the end of the text they share all tokens of the later chunk,
\* which are fewer than chunk_overlap.
C28_ConsecutiveChunksShareUpToOverlap ==
  /\ TerminatesOnlyWithSmallerOverlap
  /\ []((rt.pc = "done" /\ rt.tokens # << >>)
          => /\ Covered
             /\ \A c \in 1..(Len(rt.chunks) - 1) :
                  IF Len(rt.chunks[c].tokens) = rt.chunk_size
                    THEN Shared(rt.chunks[c], rt.chunks[c + 1]) = rt.chunk_overlap
                    ELSE /\ Shared(rt.chunks[c], rt.chunks[c + 1])
                              = Len(rt.chunks[c + 1].tokens)
                         /\ Len(rt.chunks[c + 1].tokens) < rt.chunk_overlap)

\* C28 witness: a call has ended with a cut-short chunk followed by another.
C28_Witness ==
  /\ rt.pc = "done"
  /\ \E c \in 1..(Len(rt.chunks) - 1) :
       /\ Len(rt.chunks[c].tokens) < rt.chunk_size
       /\ Shared(rt.chunks[c], rt.chunks[c + 1]) > 0

\* C30: a request without a known session_id creates a session whose id no
\* existing session has and leaves every stored session as it was; a request
\* with a known session_id appends to that session and to no other.
C30_NewSessionHasFreshId ==
  [][api' # api
      => IF api'.created
           THEN /\ api'.session_id \notin DOMAIN api.chat_sessions
                /\ \A id \in DOMAIN api.chat_sessions :
                     /\ id \in DOMAIN api'.chat_sessions
                     /\ api'.chat_sessions[id] = api.chat_sessions[id]
           ELSE /\ api'.session_id = api'.request.session_id
                /\ DOMAIN api'.chat_sessions = DOMAIN api.chat_sessions
                /\ \A id \in DOMAIN api.chat_sessions :
                     IF id = api'.session_id
                       THEN /\ Len(api'.chat_sessions[id]) > Len(api.chat_sessions[id])
                            /\ SubSeq(api'.chat_sessions[id], 1,
                                       Len(api.chat_sessions[id]))
                                 = api.chat_sessions[id]
                       ELSE api'.chat_sessions[id] = api.chat_sessions[id]]_vars

====
